---- MODULE Spec2Model ----
(***************************************************************************)
(* Webhook processing pipeline of todos-agent: the process-wide AgentLock  *)
(* (working / cooldown guard), the transport check of the webhook          *)
(* receivers, and the event handlers of the router that acquire the guard  *)
(* around the planner call.                                                *)
(*                                                                         *)
(* Time is the value of time.time() in whole seconds.  The service runs    *)
(* on one asyncio event loop: a coroutine runs without interruption up to  *)
(* its next real suspension point, so every action below is one such run.  *)
(***************************************************************************)
EXTENDS Integers, Sequences, FiniteSets, TLC

\* ------------------------------------------------------------------ bounds
MaxTicks == 3      \* clock advances per behaviour
MaxCalls == 4      \* guard API calls per behaviour of SpecGuard
NumProcs == 2      \* webhook requests per behaviour of Spec
MaxBatch == 2      \* events in the list of one calendar webhook

\* ------------------------------------------------------- program constants
timeout_seconds == 300
cooldown_seconds == 3

\* None for a timestamp: time.time() is never 0, and Python tests the
\* timestamps for truthiness, so 0 stands for None.
None == 0
\* None for current_task_id
NoTask == "None"
TaskIds == {"T1", "T2"}
\* the clock advances by one of these amounts
TickSteps == {1, 4, 299}
\* the webhook requests (each is one asyncio task of the server)
Procs == 1..NumProcs

VARIABLES
  agent_lock,   \* the global AgentLock instance (its five mutable fields)
  now,          \* time.time()
  ticks,        \* number of clock advances so far
  call,         \* SpecGuard: the last call made on the guard and its result
  ncalls,       \* SpecGuard: number of calls made on the guard
  running,      \* the request whose coroutine holds the event loop, or 0
  pc,           \* per request: where its coroutine is suspended
  req,          \* per request: endpoint, event name, number of events
  idx,          \* per request: index of the calendar event being processed
  task,         \* per request: id of the task of the event being processed
  cm,           \* per request: the agent_working context manager in use
  open,         \* per request: task ids it acquired and has not released yet
  stray,        \* per request: it made a release call that matches no acquire
  plan_start,   \* per request: when its planner call in flight started
  last,         \* the outcome reported by the step just taken, if any
  overrun,      \* some planner call has been in flight longer than the timeout
  ev            \* SpecHandler: the event the router was last called for

gvars == <<call, ncalls, ev>>
svars == <<running, pc, req, idx, task, cm, open, stray, plan_start>>
vars == <<agent_lock, now, ticks, call, ncalls, running, pc, req, idx, task,
          cm, open, stray, plan_start, last, overrun, ev>>

\* ---------------------------------------------------------------- AgentLock
AgentLock_init ==
  [ is_agent_working    |-> FALSE,
    is_cooldown         |-> FALSE,
    agent_start_time    |-> None,
    cooldown_start_time |-> None,
    current_task_id     |-> NoTask ]

\* acquire_agent_lock, the cooldown block: an expired cooldown is cleared, a
\* running one refuses.  raised: the else branch subtracts a None timestamp.
cooldown_check_skipped(g, t) ==
  [g |-> g, blocked |-> FALSE, raised |-> FALSE]

cooldown_check(g, t) ==
  IF g.is_cooldown
    THEN IF /\ g.cooldown_start_time # None
            /\ (t - g.cooldown_start_time) > cooldown_seconds
           THEN [g |-> [g EXCEPT !.is_cooldown = FALSE,
                                 !.cooldown_start_time = None,
                                 !.current_task_id = NoTask],
                 blocked |-> FALSE, raised |-> FALSE]
           ELSE [g |-> g, blocked |-> TRUE,
                 raised |-> (g.cooldown_start_time = None)]
    ELSE [g |-> g, blocked |-> FALSE, raised |-> FALSE]

\* acquire_agent_lock, the working block: a working period older than the
\* timeout is force-released, a younger one refuses.
busy_check_skipped(g, t) ==
  [g |-> g, blocked |-> FALSE]

busy_check_no_timeout(g, t) ==
  [g |-> g, blocked |-> g.is_agent_working]

busy_check_cooldown_timeout(g, t) ==
  IF g.is_agent_working
    THEN IF /\ g.agent_start_time # None
            /\ (t - g.agent_start_time) > cooldown_seconds
           THEN [g |-> [g EXCEPT !.is_agent_working = FALSE,
                                 !.is_cooldown = FALSE,
                                 !.current_task_id = NoTask],
                 blocked |-> FALSE]
           ELSE [g |-> g, blocked |-> TRUE]
    ELSE [g |-> g, blocked |-> FALSE]

busy_check(g, t) ==
  IF g.is_agent_working
    THEN IF /\ g.agent_start_time # None
            /\ (t - g.agent_start_time) > timeout_seconds
           THEN [g |-> [g EXCEPT !.is_agent_working = FALSE,
                                 !.is_cooldown = FALSE,
                                 !.current_task_id = NoTask],
                 blocked |-> FALSE]
           ELSE [g |-> g, blocked |-> TRUE]
    ELSE [g |-> g, blocked |-> FALSE]

\* acquire_agent_lock(task_id) at time t: the new guard state and the
\* returned bool
acquire_agent_lock(g, task_id, t) ==
  LET c == cooldown_check(g, t)
      b == busy_check(c.g, t)
  IN  IF c.blocked
        THEN [g |-> c.g, ret |-> FALSE, raised |-> c.raised]
      ELSE IF b.blocked
        THEN [g |-> b.g, ret |-> FALSE, raised |-> FALSE]
      ELSE [g |-> [ is_agent_working    |-> TRUE,
                    is_cooldown         |-> FALSE,
                    agent_start_time    |-> t,
                    cooldown_start_time |-> None,
                    current_task_id     |-> task_id ],
            ret |-> TRUE, raised |-> FALSE]

\* release_agent_lock(task_id) at time t: the new guard state
release_keeps_working(g, task_id, t) ==
  IF g.current_task_id = task_id \/ ~g.is_agent_working
    THEN [g EXCEPT !.is_cooldown = TRUE,
                   !.cooldown_start_time = t]
    ELSE g

release_any_caller(g, task_id, t) ==
  [g EXCEPT !.is_agent_working = FALSE,
            !.is_cooldown = TRUE,
            !.cooldown_start_time = t]

release_only_by_holder(g, task_id, t) ==
  IF g.current_task_id = task_id /\ g.is_agent_working
    THEN [g EXCEPT !.is_agent_working = FALSE,
                   !.is_cooldown = TRUE,
                   !.cooldown_start_time = t]
    ELSE g

release_agent_lock(g, task_id, t) ==
  IF g.current_task_id = task_id \/ ~g.is_agent_working
    THEN [g EXCEPT !.is_agent_working = FALSE,
                   !.is_cooldown = TRUE,
                   !.cooldown_start_time = t]
    ELSE g

\* is_agent_working() expiring the working state after the cooldown duration
is_agent_working_wrong_timeout(g, t) ==
  IF /\ g.is_agent_working
     /\ g.agent_start_time # None
     /\ (t - g.agent_start_time) > cooldown_seconds
    THEN [g |-> [g EXCEPT !.is_agent_working = FALSE,
                          !.is_cooldown = FALSE,
                          !.current_task_id = NoTask],
          ret |-> FALSE]
  ELSE IF /\ g.is_cooldown
          /\ g.cooldown_start_time # None
          /\ (t - g.cooldown_start_time) > cooldown_seconds
    THEN [g |-> [g EXCEPT !.is_cooldown = FALSE,
                          !.cooldown_start_time = None,
                          !.current_task_id = NoTask],
          ret |-> FALSE]
  ELSE [g |-> g, ret |-> (g.is_agent_working \/ g.is_cooldown)]

\* is_agent_working() answering for the working flag alone
is_agent_working_ignores_cooldown(g, t) ==
  IF /\ g.is_agent_working
     /\ g.agent_start_time # None
     /\ (t - g.agent_start_time) > timeout_seconds
    THEN [g |-> [g EXCEPT !.is_agent_working = FALSE,
                          !.is_cooldown = FALSE,
                          !.current_task_id = NoTask],
          ret |-> FALSE]
  ELSE [g |-> g, ret |-> g.is_agent_working]

\* is_agent_working() at time t: lazily expires stale states
is_agent_working(g, t) ==
  IF /\ g.is_agent_working
     /\ g.agent_start_time # None
     /\ (t - g.agent_start_time) > timeout_seconds
    THEN [g |-> [g EXCEPT !.is_agent_working = FALSE,
                          !.is_cooldown = FALSE,
                          !.current_task_id = NoTask],
          ret |-> FALSE]
  ELSE IF /\ g.is_cooldown
          /\ g.cooldown_start_time # None
          /\ (t - g.cooldown_start_time) > cooldown_seconds
    THEN [g |-> [g EXCEPT !.is_cooldown = FALSE,
                          !.cooldown_start_time = None,
                          !.current_task_id = NoTask],
          ret |-> FALSE]
  ELSE [g |-> g, ret |-> (g.is_agent_working \/ g.is_cooldown)]

Max(a, b) == IF a >= b THEN a ELSE b

\* get_status() at time t: the returned dict; a key the code leaves out is -1
get_status(g, t) ==
  [ is_locked        |-> (g.is_agent_working \/ g.is_cooldown),
    is_agent_working |-> g.is_agent_working,
    is_cooldown      |-> g.is_cooldown,
    current_task_id  |-> g.current_task_id,
    agent_elapsed_seconds |->
      IF g.agent_start_time # None THEN t - g.agent_start_time ELSE -1,
    cooldown_elapsed_seconds |->
      IF g.cooldown_start_time # None THEN t - g.cooldown_start_time ELSE -1,
    cooldown_remaining_seconds |->
      IF g.cooldown_start_time # None
        THEN Max(0, cooldown_seconds - (t - g.cooldown_start_time))
        ELSE -1 ]

\* ----------------------------------------------- agent_working (lock user)
NoCm == [task_id |-> NoTask, acquired |-> FALSE]

\* agent_working.__aenter__: acquires, and raises when not acquired
aenter(g, task_id, t) ==
  LET r == acquire_agent_lock(g, task_id, t)
  IN  [g |-> r.g, cm |-> [task_id |-> task_id, acquired |-> r.ret],
       raised |-> ~r.ret]

\* agent_working.__aexit__(exc...): releases if the manager acquired; exc says
\* whether the block is left by an exception.  rel: the release calls made.
aexit_only_on_success(g, c, exc, t) ==
  IF c.acquired /\ ~exc
    THEN [g |-> release_agent_lock(g, c.task_id, t), rel |-> <<c.task_id>>]
    ELSE [g |-> g, rel |-> <<>>]

aexit(g, c, exc, t) ==
  IF c.acquired
    THEN [g |-> release_agent_lock(g, c.task_id, t), rel |-> <<c.task_id>>]
    ELSE [g |-> g, rel |-> <<>>]

\* ------------------------------------------------------------ the handlers
\* What a handler did up to its first suspension point or its return:
\*   g      the guard state it leaves
\*   next   "done" (it returned or raised) or the await it is suspended in
\*   cm     the context manager it is inside of (when next = "planning")
\*   res    log: the action given to log_task_action, msg: the message
\*   raised an exception left the handler
\*   acq    task ids of the acquire calls that succeeded, rel: release calls
\*   svc    the calls made to the task service, with what it answered
NoRes == [log |-> "none", msg |-> "none"]

Return(g, log, msg) ==
  [g |-> g, next |-> "done", cm |-> NoCm, res |-> [log |-> log, msg |-> msg],
   raised |-> FALSE, acq |-> <<>>, rel |-> <<>>, svc |-> <<>>]

Suspend(g, at) ==
  [g |-> g, next |-> at, cm |-> NoCm, res |-> NoRes,
   raised |-> FALSE, acq |-> <<>>, rel |-> <<>>, svc |-> <<>>]

\* `async with agent_working(task_id, ...)` around the planner call: entering
\* raises when the guard refuses (the handlers catch it and report a
\* failure); otherwise the handler is suspended in the planner call.
Guarded(g, task_id, t) ==
  LET e == aenter(g, task_id, t)
  IN  IF e.raised
        THEN Return(e.g, "failed", "Agent is busy")
        ELSE [g |-> e.g, next |-> "planning", cm |-> e.cm, res |-> NoRes,
              raised |-> FALSE,
              acq |-> IF e.cm.acquired THEN <<task_id>> ELSE <<>>,
              rel |-> <<>>, svc |-> <<>>]

\* has_manual_scheduled_label: the spellings of the label it recognizes
manual_scheduled_variants ==
  {"Manual Scheduled", "manual scheduled", "Manual scheduled",
   "manual_scheduled", "ManualScheduled"}

\* the label lists of the tasks
LabelSets ==
  { {}, {"Manual Scheduled"}, {"manual_scheduled"}, {"MANUAL SCHEDULED"},
    {"urgent", "ManualScheduled"} }

has_manual_scheduled_label_never(d) == FALSE

has_manual_scheduled_label(d) ==
  \E label \in d.labels : label \in manual_scheduled_variants

\* ------------------------------------------------- the priority threshold
\* Todoist API priorities; None when the task data has no priority
Priorities == {None, 1, 2, 3, 4}

\* settings["auto_scheduling_priority"][todos_list] in the current format, and
\* whether reading the configuration raises
ListSettings == [min_priority : 1 .. 4, enabled : BOOLEAN, raises : BOOLEAN]

effective_priority(priority) == IF priority = None THEN 1 ELSE priority

\* config_manager.should_auto_schedule_task: the category's automation is
\* enabled and the effective priority meets the minimum priority
should_auto_schedule_task(priority, list_settings) ==
  list_settings.enabled /\ effective_priority(priority) >= list_settings.min_priority

NoReason == [kind |-> "none", priority |-> None, threshold |-> None]

should_auto_schedule_by_priority_raw(priority, list_settings) ==
  IF list_settings.raises
    THEN [allow |-> TRUE,
          reason |-> [kind |-> "check_failed", priority |-> priority, threshold |-> None]]
  ELSE IF should_auto_schedule_task(priority, list_settings)
    THEN [allow |-> TRUE,
          reason |-> [kind |-> "meets", priority |-> priority, threshold |-> None]]
  ELSE IF ~list_settings.enabled
    THEN [allow |-> FALSE,
          reason |-> [kind |-> "disabled", priority |-> None, threshold |-> None]]
  ELSE [allow |-> FALSE,
        reason |-> [kind |-> "below", priority |-> priority,
                    threshold |-> list_settings.min_priority]]

should_auto_schedule_by_priority_fails_closed(priority, list_settings) ==
  IF list_settings.raises
    THEN [allow |-> FALSE,
          reason |-> [kind |-> "check_failed",
                      priority |-> effective_priority(priority), threshold |-> None]]
  ELSE IF should_auto_schedule_task(priority, list_settings)
    THEN [allow |-> TRUE,
          reason |-> [kind |-> "meets",
                      priority |-> effective_priority(priority), threshold |-> None]]
  ELSE IF ~list_settings.enabled
    THEN [allow |-> FALSE,
          reason |-> [kind |-> "disabled", priority |-> None, threshold |-> None]]
  ELSE [allow |-> FALSE,
        reason |-> [kind |-> "below", priority |-> effective_priority(priority),
                    threshold |-> list_settings.min_priority]]

\* the decision and what the reason text cites
should_auto_schedule_by_priority(priority, list_settings) ==
  IF list_settings.raises
    THEN [allow |-> TRUE,
          reason |-> [kind |-> "check_failed",
                      priority |-> effective_priority(priority), threshold |-> None]]
  ELSE IF should_auto_schedule_task(priority, list_settings)
    THEN [allow |-> TRUE,
          reason |-> [kind |-> "meets",
                      priority |-> effective_priority(priority), threshold |-> None]]
  ELSE IF ~list_settings.enabled
    THEN [allow |-> FALSE,
          reason |-> [kind |-> "disabled", priority |-> None, threshold |-> None]]
  ELSE [allow |-> FALSE,
        reason |-> [kind |-> "below", priority |-> effective_priority(priority),
                    threshold |-> list_settings.min_priority]]

\* ------------------------------------------------------- the overdue check
\* datetime.now(local_tz) when the handler runs, in minutes of one clock on
\* which the due moments are read too
now_local == 2000

\* task_data['due']: absent, a date that does not parse, or a moment
Dues ==
  {[kind |-> "absent", at |-> 0], [kind |-> "unparsable", at |-> 0]}
    \cup [kind : {"moment"}, at : {559, 560, 1939, 1940, 1999, 2000}]

\* task_data['duration']: absent, or an amount and a unit
Durations ==
  {[kind |-> "absent", amount |-> 0, unit |-> "minute"],
   [kind |-> "given", amount |-> 60, unit |-> "minute"],
   [kind |-> "given", amount |-> 1, unit |-> "hour"],
   [kind |-> "given", amount |-> 1, unit |-> "day"]}

duration_minutes(duration) ==
  IF duration.kind = "absent" THEN 0
  ELSE IF duration.unit = "minute" THEN duration.amount
  ELSE IF duration.unit = "hour" THEN duration.amount * 60
  ELSE IF duration.unit = "day" THEN duration.amount * 24 * 60
  ELSE 0

is_overdue_at_now(due, duration, t) ==
  due.kind = "moment" /\ due.at + duration_minutes(duration) <= t

\* the task's end (due moment plus duration) has passed at t
is_overdue(due, duration, t) ==
  due.kind = "moment" /\ due.at + duration_minutes(duration) < t

\* the task data and configuration a handler reads, per event name
AddedInputs ==
  [has_project : BOOLEAN, configured : BOOLEAN, sections : BOOLEAN,
   labels : LabelSets, mapped : BOOLEAN, allow : BOOLEAN]
UpdatedInputs ==
  [labels : LabelSets, has_old : BOOLEAN, has_changes : BOOLEAN,
   priority_changed : BOOLEAN, due : Dues, duration : Durations,
   has_project : BOOLEAN, mapped : BOOLEAN, allow : BOOLEAN]
CompletedInputs == [has_id : BOOLEAN, remove : {"ok", "failed", "raises"}]
NoInputs == {[none |-> TRUE]}
CalendarInputs ==
  [wellformed : BOOLEAN, completed : BOOLEAN,
   fetch : {"ok", "not_found", "error"},
   labels : LabelSets, has_project : BOOLEAN, mapped : BOOLEAN, allow : BOOLEAN]

handle_task_added_without_gate(g, task_id, d, t) ==
  IF d.has_project /\ d.configured
    THEN IF d.sections
           THEN Suspend(g, "categorizing")
           ELSE Return(g, "categorized", "No sections found")
  ELSE IF has_manual_scheduled_label(d)
    THEN Return(g, "skipped", "manual_scheduled_label")
  ELSE IF ~d.has_project
    THEN Return(g, "skipped", "no_project_id")
  ELSE IF ~d.mapped
    THEN Return(g, "skipped", "no_todos_list_mapping")
  ELSE Guarded(g, task_id, t)

handle_task_added_categorization_falls_through(g, task_id, d, t) ==
  IF d.has_project /\ d.configured /\ d.sections
    THEN Suspend(g, "categorizing")
  ELSE IF has_manual_scheduled_label(d)
    THEN Return(g, "skipped", "manual_scheduled_label")
  ELSE IF ~d.has_project
    THEN Return(g, "skipped", "no_project_id")
  ELSE IF ~d.mapped
    THEN Return(g, "skipped", "no_todos_list_mapping")
  ELSE IF ~d.allow
    THEN Return(g, "skipped", "priority_below_threshold")
  ELSE Guarded(g, task_id, t)

handle_task_added(g, task_id, d, t) ==
  IF d.has_project /\ d.configured
    THEN IF d.sections
           THEN Suspend(g, "categorizing")
           ELSE Return(g, "categorized", "No sections found")
  ELSE IF has_manual_scheduled_label(d)
    THEN Return(g, "skipped", "manual_scheduled_label")
  ELSE IF ~d.has_project
    THEN Return(g, "skipped", "no_project_id")
  ELSE IF ~d.mapped
    THEN Return(g, "skipped", "no_todos_list_mapping")
  ELSE IF ~d.allow
    THEN Return(g, "skipped", "priority_below_threshold")
  ELSE Guarded(g, task_id, t)

handle_task_updated(g, task_id, d, t) ==
  IF has_manual_scheduled_label(d)
    THEN Return(g, "skipped", "manual_scheduled_label")
  ELSE IF ~d.has_old
    THEN Return(g, "ignored", "no_old_item_data")
  ELSE IF ~d.has_changes
    THEN Return(g, "ignored", "no_significant_changes")
  ELSE IF ~(d.priority_changed \/ is_overdue(d.due, d.duration, now_local))
    THEN Return(g, "ignored", "no_rescheduling_needed")
  ELSE
    LET b == Guarded(g, task_id, t)
        \* leaving the block without an exception, before the planner call
        x == aexit(b.g, b.cm, FALSE, t)
    IN  IF b.next = "done"
          THEN b
        ELSE IF ~d.has_project \/ ~d.mapped
          THEN [g |-> x.g, next |-> "done", cm |-> NoCm,
                res |-> [log |-> "none", msg |-> "None"],
                raised |-> FALSE, acq |-> b.acq, rel |-> x.rel, svc |-> <<>>]
        ELSE IF ~d.allow
          THEN [g |-> x.g, next |-> "done", cm |-> NoCm,
                res |-> [log |-> "skipped", msg |-> "priority_below_threshold"],
                raised |-> FALSE, acq |-> b.acq, rel |-> x.rel, svc |-> <<>>]
        ELSE b

\* the handler has called the task service, which answered
ServiceCall(h, op, answer) ==
  [h EXCEPT !.svc = <<[op |-> op, answer |-> answer]>> \o @]

\* todoist.remove_task_scheduling: raises without an API token or when the
\* request fails; otherwise returns a text, also for a failure status
remove_task_scheduling(answer) ==
  [raised |-> (answer = "raises"), cleared |-> (answer = "ok")]

handle_task_completed_swallows(g, task_id, d, t) ==
  IF d.has_id
    THEN ServiceCall(Suspend(g, "sleeping"), "remove_task_scheduling", d.remove)
    ELSE Suspend(g, "sleeping")

handle_task_completed(g, task_id, d, t) ==
  IF ~d.has_id
    THEN Suspend(g, "sleeping")
  ELSE IF remove_task_scheduling(d.remove).raised
    THEN ServiceCall([g |-> g, next |-> "done", cm |-> NoCm,
                      res |-> [log |-> "failed", msg |-> "Processing failed"],
                      raised |-> TRUE, acq |-> <<>>, rel |-> <<>>, svc |-> <<>>],
                     "remove_task_scheduling", d.remove)
  ELSE ServiceCall(Suspend(g, "sleeping"), "remove_task_scheduling", d.remove)

handle_task_deleted_guarded(g, task_id, d, t) ==
  Guarded(g, task_id, t)

handle_task_deleted(g, task_id, d, t) ==
  Suspend(g, "sleeping")

handle_calendar_reschedule(g, task_id, d, t) ==
  LET h == IF d.fetch = "not_found"
             THEN Return(g, "failed", "task_not_found")
           ELSE IF d.fetch = "error"
             THEN Return(g, "failed", "fetch_failed")
           ELSE IF has_manual_scheduled_label(d)
             THEN Return(g, "skipped", "manual_scheduled_label")
           ELSE IF ~d.has_project
             THEN Return(g, "failed", "no_project_id")
           ELSE IF ~d.mapped
             THEN Return(g, "failed", "no_todos_list_mapping")
           ELSE IF ~d.allow
             THEN Return(g, "skipped", "priority_below_threshold")
           ELSE Guarded(g, task_id, t)
  IN  ServiceCall(h, "get_task_details", d.fetch)

handle_unknown_event(g, task_id, d, t) ==
  Return(g, "ignored", "unknown_event_type")

TodoistEvents ==
  {"item:added", "item:updated", "item:completed", "item:deleted", "item:other"}

Inputs(event_name) ==
  CASE event_name = "item:added" -> AddedInputs
    [] event_name = "item:updated" -> UpdatedInputs
    [] event_name = "item:completed" -> CompletedInputs
    [] OTHER -> NoInputs

\* router: the dispatch on event_name
router(g, event_name, task_id, d, t) ==
  CASE event_name = "item:added" -> handle_task_added(g, task_id, d, t)
    [] event_name = "item:updated" -> handle_task_updated(g, task_id, d, t)
    [] event_name = "item:completed" -> handle_task_completed(g, task_id, d, t)
    [] event_name = "item:deleted" -> handle_task_deleted(g, task_id, d, t)
    [] event_name = "calendar:event_end" ->
         handle_calendar_reschedule(g, task_id, d, t)
    [] OTHER -> handle_unknown_event(g, task_id, d, t)

\* router: the dict it returns for a handler that returned or raised
RouterResult(event_name, res, raised) ==
  [event_name |-> event_name,
   status |-> IF raised THEN "error" ELSE "success",
   log |-> res.log, msg |-> res.msg]

\* the handlers after `await schedule_initial_tasks_agent(...)`: the block is
\* left (by the return, or by the planner's exception, which the handler
\* catches and reports)
after_planner(g, c, exc, t) ==
  LET x == aexit(g, c, exc, t)
  IN  [g |-> x.g, rel |-> x.rel,
       res |-> IF exc THEN [log |-> "failed", msg |-> "planner raised"]
                      ELSE [log |-> "rescheduled", msg |-> "agent_result"]]

\* the handlers after their other awaits
after_await(event_name) ==
  CASE event_name = "item:added" -> [log |-> "categorized", msg |-> "categorized"]
    [] event_name = "item:completed" -> [log |-> "completed", msg |-> "completed"]
    [] OTHER -> [log |-> "deleted", msg |-> "deleted"]

\* -------------------------------------------------------- webhook receivers
NoReq == [endpoint |-> "none", event_name |-> "none", n |-> 0]
NoOutcome == [event_name |-> "none", status |-> "none", log |-> "none",
              msg |-> "none"]

\* the 202 "blocked" response of the transport check
Blocked(event_name, lock_status) ==
  [event_name |-> event_name, status |-> "blocked", log |-> "none",
   msg |-> IF lock_status.is_cooldown THEN "agent_cooldown" ELSE "agent_busy",
   retry_after_seconds |-> IF lock_status.is_cooldown THEN 5 ELSE 30]

\* open after the acquire calls acq and then the release calls rel of one
\* step (at most one of each): a release closes the acquire of the same task
\* id, and is stray when there is none
Settle(o, acq, rel) ==
  LET o1 == o \o acq
  IN  IF rel = <<>>
        THEN [open |-> o1, stray |-> FALSE]
      ELSE IF o1 # <<>> /\ o1[Len(o1)] = rel[1]
        THEN [open |-> SubSeq(o1, 1, Len(o1) - 1), stray |-> FALSE]
      ELSE [open |-> o1, stray |-> TRUE]

GuardCalls(p, acq, rel) ==
  /\ open' = [open EXCEPT ![p] = Settle(open[p], acq, rel).open]
  /\ stray' = [stray EXCEPT ![p] = @ \/ Settle(open[p], acq, rel).stray]

\* request p is suspended at `at` in the handler of event i of its r.n events
Suspended(p, at, r, i, task_id, c) ==
  /\ pc' = [pc EXCEPT ![p] = at]
  /\ req' = [req EXCEPT ![p] = r]
  /\ idx' = [idx EXCEPT ![p] = i]
  /\ task' = [task EXCEPT ![p] = task_id]
  /\ cm' = [cm EXCEPT ![p] = c]
  /\ plan_start' = [plan_start EXCEPT ![p] =
       IF at = "planning" THEN now ELSE None]
  /\ running' = 0

\* event i of the r.n events of request p is done: the request goes on to
\* its next event (calendar list), or responds and is over
EventDone(p, r, i) ==
  /\ IF i < r.n
       THEN /\ pc' = [pc EXCEPT ![p] = "cal_loop"]
            /\ req' = [req EXCEPT ![p] = r]
            /\ idx' = [idx EXCEPT ![p] = i + 1]
            /\ running' = p
       ELSE /\ pc' = [pc EXCEPT ![p] = "idle"]
            /\ req' = [req EXCEPT ![p] = NoReq]
            /\ idx' = [idx EXCEPT ![p] = 0]
            /\ running' = 0
  /\ task' = [task EXCEPT ![p] = NoTask]
  /\ cm' = [cm EXCEPT ![p] = NoCm]
  /\ plan_start' = [plan_start EXCEPT ![p] = None]

\* the handler of event i of request p ran to h
Handled(p, r, i, task_id, h) ==
  /\ agent_lock' = h.g
  /\ GuardCalls(p, h.acq, h.rel)
  /\ IF h.next = "done"
       THEN /\ last' = RouterResult(r.event_name, h.res, h.raised)
            /\ EventDone(p, r, i)
       ELSE /\ Suspended(p, h.next, r, i, task_id, h.cm)
            /\ last' = NoOutcome

\* the task data of an event, one per distinct run of its handler: the
\* handlers read the guard only through agent_working, so task data with the
\* same run from the initial guard has the same run from every guard
Cases(event_name) ==
  LET run(d) == router(AgentLock_init, event_name, "T1", d, 1)
  IN  { CHOOSE d \in Inputs(event_name) : run(d) = o :
          o \in {run(d) : d \in Inputs(event_name)} }

\* event name, task id and task data of a todoist webhook
TodoistCases ==
  UNION { {<<e, i, x>> : i \in TaskIds, x \in Cases(e)} : e \in TodoistEvents }

\* the runs of the router a todoist webhook can lead to with guard state g at
\* time t, over the event names, task ids and task data
TodoistRuns(g, t) ==
  { [event_name |-> c[1], task_id |-> c[2],
     h |-> router(g, c[1], c[2], c[3], t)] : c \in TodoistCases }

\* POST /webhook/todoist, from the request body to the first suspension
webhook_receiver(p) ==
  /\ running = 0
  /\ pc[p] = "idle"
  /\ \A q \in Procs : q < p => pc[q] # "idle"
  /\ LET chk == is_agent_working(agent_lock, now)
     IN  IF chk.ret
           THEN /\ agent_lock' = chk.g
                /\ \E event_name \in TodoistEvents :
                     last' = Blocked(event_name, get_status(chk.g, now))
                /\ UNCHANGED <<running, pc, req, idx, task, cm, open,
                               stray, plan_start>>
           ELSE \E x \in TodoistRuns(chk.g, now) :
                  Handled(p, [endpoint |-> "todoist",
                              event_name |-> x.event_name, n |-> 1],
                          1, x.task_id, x.h)
  /\ UNCHANGED <<now, ticks, gvars, overrun>>

\* POST /webhook/calendar, from the request body to the loop over the events
calendar_webhook_receiver(p) ==
  /\ running = 0
  /\ pc[p] = "idle"
  /\ \A q \in Procs : q < p => pc[q] # "idle"
  /\ \E n \in 1..MaxBatch :
       LET chk == is_agent_working(agent_lock, now)
           r == [endpoint |-> "calendar", event_name |-> "calendar:event_end",
                 n |-> n]
       IN  /\ agent_lock' = chk.g
           /\ IF chk.ret
                THEN /\ last' = Blocked(r.event_name, get_status(chk.g, now))
                     /\ UNCHANGED <<running, pc, req, idx>>
                ELSE /\ pc' = [pc EXCEPT ![p] = "cal_loop"]
                     /\ req' = [req EXCEPT ![p] = r]
                     /\ idx' = [idx EXCEPT ![p] = 1]
                     /\ running' = p
                     /\ last' = NoOutcome
  /\ UNCHANGED <<now, ticks, gvars, task, cm, open, stray, plan_start, overrun>>

\* the calendar events, one per distinct run of the loop body
CalendarCases ==
  LET run(d) == <<d.wellformed, d.completed,
                  router(AgentLock_init, "calendar:event_end", "T1", d, 1)>>
  IN  { CHOOSE d \in CalendarInputs : run(d) = o :
          o \in {run(d) : d \in CalendarInputs} }

\* the runs of the router one calendar event can lead to
CalendarRuns(g, t) ==
  { [task_id |-> task_id, wellformed |-> d.wellformed,
     completed |-> d.completed,
     h |-> router(g, "calendar:event_end", task_id, d, t)] :
      <<task_id, d>> \in TaskIds \X CalendarCases }

\* one iteration of the loop of calendar_webhook_receiver over the events,
\* up to the planner call or to the end of the iteration
calendar_event(p) ==
  /\ running = p
  /\ pc[p] = "cal_loop"
  /\ \E x \in CalendarRuns(agent_lock, now) :
       IF ~x.wellformed
         THEN /\ last' = [event_name |-> req[p].event_name, status |-> "error",
                          log |-> "none", msg |-> "Missing task_name or task_url"]
              /\ EventDone(p, req[p], idx[p])
              /\ UNCHANGED <<agent_lock, open, stray>>
       ELSE IF x.completed
         THEN /\ last' = [event_name |-> req[p].event_name, status |-> "skipped",
                          log |-> "skipped", msg |-> "task_completed"]
              /\ EventDone(p, req[p], idx[p])
              /\ UNCHANGED <<agent_lock, open, stray>>
       ELSE Handled(p, req[p], idx[p], x.task_id, x.h)
  /\ UNCHANGED <<now, ticks, gvars, overrun>>

\* the planner call of request p returns or raises: the guarded block is left
planner_returns(p) ==
  /\ running = 0
  /\ pc[p] = "planning"
  /\ \E exc \in BOOLEAN :
       LET a == after_planner(agent_lock, cm[p], exc, now)
       IN  /\ agent_lock' = a.g
           /\ GuardCalls(p, <<>>, a.rel)
           /\ last' = RouterResult(req[p].event_name, a.res, FALSE)
  /\ EventDone(p, req[p], idx[p])
  /\ UNCHANGED <<now, ticks, gvars, overrun>>

\* the classifier (item:added) or asyncio.sleep (item:completed, item:deleted)
\* of request p returns
await_returns(p) ==
  /\ running = 0
  /\ pc[p] \in {"categorizing", "sleeping"}
  /\ last' = RouterResult(req[p].event_name, after_await(req[p].event_name),
                          FALSE)
  /\ EventDone(p, req[p], idx[p])
  /\ UNCHANGED <<agent_lock, now, ticks, gvars, open, stray, overrun>>

\* ------------------------------------------------------------------- clock
Tick ==
  /\ ticks < MaxTicks
  /\ \E d \in TickSteps : now' = now + d
  /\ ticks' = ticks + 1
  /\ overrun' = ( \/ overrun
                  \/ \E p \in Procs : /\ pc[p] = "planning"
                                      /\ now' - plan_start[p] > timeout_seconds )
  /\ last' = NoOutcome
  /\ UNCHANGED <<agent_lock, gvars, svars>>

\* ------------------------------------------- SpecGuard: the guard API alone
NoCall == [op |-> "none", task |-> NoTask, ret |-> FALSE, at |-> 0,
           pre |-> AgentLock_init,
           status |-> get_status(AgentLock_init, 1)]

GAcquire ==
  /\ ncalls < MaxCalls
  /\ \E t \in TaskIds :
       LET r == acquire_agent_lock(agent_lock, t, now)
       IN  /\ agent_lock' = r.g
           /\ call' = [op |-> "acquire", task |-> t, ret |-> r.ret, at |-> now,
                       pre |-> agent_lock, status |-> call.status]
  /\ ncalls' = ncalls + 1
  /\ UNCHANGED <<now, ticks, svars, last, overrun, ev>>

GRelease ==
  /\ ncalls < MaxCalls
  /\ \E t \in TaskIds :
       /\ agent_lock' = release_agent_lock(agent_lock, t, now)
       /\ call' = [op |-> "release", task |-> t, ret |-> FALSE, at |-> now,
                   pre |-> agent_lock, status |-> call.status]
  /\ ncalls' = ncalls + 1
  /\ UNCHANGED <<now, ticks, svars, last, overrun, ev>>

GIsAgentWorking ==
  /\ ncalls < MaxCalls
  /\ LET r == is_agent_working(agent_lock, now)
     IN  /\ agent_lock' = r.g
         /\ call' = [op |-> "is_agent_working", task |-> NoTask, ret |-> r.ret,
                     at |-> now, pre |-> agent_lock, status |-> call.status]
  /\ ncalls' = ncalls + 1
  /\ UNCHANGED <<now, ticks, svars, last, overrun, ev>>

GGetStatus ==
  /\ ncalls < MaxCalls
  /\ call' = [op |-> "get_status", task |-> NoTask,
              ret |-> get_status(agent_lock, now).is_locked, at |-> now,
              pre |-> agent_lock,
              status |-> get_status(agent_lock, now)]
  /\ ncalls' = ncalls + 1
  /\ UNCHANGED <<agent_lock, now, ticks, svars, last, overrun, ev>>

\* The event the router was called for: its name, task id and task data, the
\* guard before the call (pre) and the time of the call (at), where its
\* handler is (next), the context manager it is inside of, the successful
\* acquire calls (acq) and the release calls (rel) it made, and whether it
\* called the planner.
NoEvent ==
  [event_name |-> "none", task_id |-> NoTask, d |-> [none |-> TRUE],
   pre |-> AgentLock_init, at |-> 0, next |-> "done", cm |-> NoCm,
   acq |-> <<>>, rel |-> <<>>, svc |-> <<>>, refused |-> FALSE,
   planned |-> FALSE]

Init ==
  /\ agent_lock = AgentLock_init
  /\ now = 1
  /\ ticks = 0
  /\ call = NoCall
  /\ ncalls = 0
  /\ running = 0
  /\ pc = [p \in Procs |-> "idle"]
  /\ req = [p \in Procs |-> NoReq]
  /\ idx = [p \in Procs |-> 0]
  /\ task = [p \in Procs |-> NoTask]
  /\ cm = [p \in Procs |-> NoCm]
  /\ open = [p \in Procs |-> <<>>]
  /\ stray = [p \in Procs |-> FALSE]
  /\ last = NoOutcome
  /\ plan_start = [p \in Procs |-> None]
  /\ overrun = FALSE
  /\ ev = NoEvent

NextGuard == GAcquire \/ GRelease \/ GIsAgentWorking \/ GGetStatus \/ Tick

SpecGuard == Init /\ [][NextGuard]_vars

\* --------------------------------- SpecHandler: the router, event by event
AllEvents == TodoistEvents \cup {"calendar:event_end"}

\* the task data the router can be called with: the calendar receiver calls
\* it for the well-formed events of incomplete tasks only
EventInputs(event_name) ==
  IF event_name = "calendar:event_end"
    THEN {d \in CalendarInputs : d.wellformed /\ ~d.completed}
    ELSE Inputs(event_name)

\* the time router is called at
HandlerClock == timeout_seconds + cooldown_seconds + 2

\* the guard states router can be called in: Idle; Working for another
\* request's task, timed out or not; in Cooldown, expired or not
GuardAtEntry ==
  LET working(t) == acquire_agent_lock(AgentLock_init, "T2", t).g
      cooldown(t) == release_agent_lock(working(t), "T2", t)
  IN  { AgentLock_init,
        working(1), working(HandlerClock - 1),
        cooldown(1), cooldown(HandlerClock - 1) }

InitHandler ==
  /\ agent_lock \in GuardAtEntry
  /\ now = HandlerClock
  /\ ticks = 0
  /\ call = NoCall
  /\ ncalls = 0
  /\ running = 0
  /\ pc = [p \in Procs |-> "idle"]
  /\ req = [p \in Procs |-> NoReq]
  /\ idx = [p \in Procs |-> 0]
  /\ task = [p \in Procs |-> NoTask]
  /\ cm = [p \in Procs |-> NoCm]
  /\ open = [p \in Procs |-> <<>>]
  /\ stray = [p \in Procs |-> FALSE]
  /\ last = NoOutcome
  /\ plan_start = [p \in Procs |-> None]
  /\ overrun = FALSE
  /\ \E event_name \in AllEvents, task_id \in TaskIds :
       \E d \in EventInputs(event_name) :
         ev = [NoEvent EXCEPT !.event_name = event_name, !.task_id = task_id,
                              !.d = d, !.pre = agent_lock, !.at = now,
                              !.next = "router"]

\* router(task_data) is called, and runs to the first suspension of the
\* handler or to its return
RouterCall ==
  /\ ev.next = "router"
  /\ LET h == router(agent_lock, ev.event_name, ev.task_id, ev.d, now)
     IN  /\ agent_lock' = h.g
         /\ ev' = [ev EXCEPT !.next = h.next, !.cm = h.cm,
                             !.acq = h.acq, !.rel = h.rel, !.svc = h.svc,
                             !.refused = (h.res.msg = "Agent is busy"),
                             !.planned = (h.next = "planning")]
         /\ last' = IF h.next = "done"
                      THEN RouterResult(ev.event_name, h.res, h.raised)
                      ELSE NoOutcome
  /\ UNCHANGED <<now, ticks, call, ncalls, svars, overrun>>

\* the planner call of the event returns or raises
RouterPlannerDone ==
  /\ ev.next = "planning"
  /\ \E exc \in BOOLEAN :
       LET a == after_planner(agent_lock, ev.cm, exc, now)
       IN  /\ agent_lock' = a.g
           /\ ev' = [ev EXCEPT !.next = "done", !.rel = @ \o a.rel]
           /\ last' = RouterResult(ev.event_name, a.res, FALSE)
  /\ UNCHANGED <<now, ticks, call, ncalls, svars, overrun>>

\* the other await of the event's handler returns
RouterAwaitDone ==
  /\ ev.next \in {"categorizing", "sleeping"}
  /\ ev' = [ev EXCEPT !.next = "done"]
  /\ last' = RouterResult(ev.event_name, after_await(ev.event_name), FALSE)
  /\ UNCHANGED <<agent_lock, now, ticks, call, ncalls, svars, overrun>>

NextHandler == RouterCall \/ RouterPlannerDone \/ RouterAwaitDone

SpecHandler == InitHandler /\ [][NextHandler]_vars

\* ------------------------- SpecGate: the priority threshold gate, called once
\* The gate is called for a task's priority and its category's settings.
InitGate ==
  /\ agent_lock = AgentLock_init
  /\ now = 1
  /\ ticks = 0
  /\ ncalls = 0
  /\ running = 0
  /\ pc = [p \in Procs |-> "idle"]
  /\ req = [p \in Procs |-> NoReq]
  /\ idx = [p \in Procs |-> 0]
  /\ task = [p \in Procs |-> NoTask]
  /\ cm = [p \in Procs |-> NoCm]
  /\ open = [p \in Procs |-> <<>>]
  /\ stray = [p \in Procs |-> FALSE]
  /\ last = NoOutcome
  /\ plan_start = [p \in Procs |-> None]
  /\ overrun = FALSE
  /\ ev = NoEvent
  /\ \E priority \in Priorities, list_settings \in ListSettings :
       call = [op |-> "should_auto_schedule_by_priority", priority |-> priority,
               list_settings |-> list_settings, done |-> FALSE,
               ret |-> [allow |-> FALSE, reason |-> NoReason]]

GateCall ==
  /\ ~call.done
  /\ call' = [call EXCEPT
       !.ret = should_auto_schedule_by_priority(call.priority, call.list_settings),
       !.done = TRUE]
  /\ UNCHANGED <<agent_lock, now, ticks, ncalls, ev, svars, last, overrun>>

NextGate == GateCall

SpecGate == InitGate /\ [][NextGate]_vars

\* ------------------------------------------------------ the change analysis
\* important_fields, in the order the loop visits them
important_fields ==
  <<"content", "due", "duration", "priority", "labels", "description",
    "project_id", "section_id", "checked">>

\* the task snapshots of an updated event (old_item and the current item): a
\* title, a due object, a duration object, a priority, a list of labels, a
\* description, a project, a section (or none) and the completion flag, which
\* may be missing from the data
Snapshots ==
  [content : {"a", "b"},
   due : {d \in Dues : d.kind = "absent" \/ d.at \in {1999, 2000}},
   duration : {d \in Durations : d.unit = "minute"}
                \cup {[kind |-> "given", amount |-> 30, unit |-> "minute"]},
   priority : {None, 1, 4},
   labels : {<<>>, <<"x">>, <<"z">>, <<"x", "y">>, <<"y", "x">>},
   description : {"", "text", "more"},
   project_id : {"P1", "P2"},
   section_id : {"None", "S1"},
   checked : {"None", "False", "True"}]

\* the old snapshots the analysis is run against
OldSnapshots ==
  {s \in Snapshots :
     /\ s.content = "a" /\ s.priority = 4 /\ s.project_id = "P1"
     /\ s.section_id = "None"
     /\ (s.due.kind = "absent" \/ s.due.at = 1999)
     /\ (s.duration.kind = "absent" \/ s.duration.amount = 60)
     /\ s.labels \in {<<>>, <<"x", "y">>}
     /\ s.description \in {"", "text"}
     /\ s.checked \in {"None", "True"}}

\* Python's truth value of the completion flag
truthy(checked) == checked = "True"

\* set(labels)
label_set(labels) == {labels[i] : i \in 1 .. Len(labels)}

\* what one pass of the loop adds to the change record for a field whose old
\* and new values differ: the summary lines (field and phrase) and the tags
field_change(field, old_value, new_value) ==
  LET line(phrase) == <<[field |-> field, phrase |-> phrase]>>
      both(phrase, tag) == [summary |-> line(phrase), tags |-> <<tag>>]
  IN  IF field \in {"due", "duration"}
        THEN LET name == IF field = "due" THEN "due_date" ELSE "duration"
             IN  IF old_value.kind = "absent"
                   THEN both("added", name \o "_added")
                 ELSE IF new_value.kind = "absent"
                   THEN both("removed", name \o "_removed")
                 ELSE both("changed", name \o "_changed")
      ELSE IF field = "content" THEN both("changed", "title_changed")
      ELSE IF field = "priority" THEN both("changed", "priority_changed")
      ELSE IF field = "labels"
        THEN LET added_labels == label_set(new_value) \ label_set(old_value)
                 removed_labels == label_set(old_value) \ label_set(new_value)
             IN  [summary |->
                    (IF added_labels # {} THEN line("added") ELSE <<>>)
                      \o (IF removed_labels # {} THEN line("removed") ELSE <<>>),
                  tags |->
                    IF added_labels # {} \/ removed_labels # {}
                      THEN <<"labels_changed">> ELSE <<>>]
      ELSE IF field = "description"
        THEN [summary |->
                IF old_value = "" /\ new_value # "" THEN line("added")
                ELSE IF old_value # "" /\ new_value = "" THEN line("removed")
                ELSE line("modified"),
              tags |-> <<"description_changed">>]
      ELSE IF field = "checked"
        THEN IF truthy(new_value) /\ ~truthy(old_value)
               THEN both("completed", "task_completed")
             ELSE IF ~truthy(new_value) /\ truthy(old_value)
               THEN both("reopened", "task_reopened")
             ELSE [summary |-> <<>>, tags |-> <<>>]
      ELSE [summary |-> line("changed"), tags |-> <<>>]

NoChanges ==
  [has_changes |-> FALSE, fields_changed |-> <<>>, change_summary |-> <<>>,
   significant_changes |-> <<>>]

\* the loop over important_fields
RECURSIVE analyze_loop(_, _, _, _)
analyze_loop(changes, fields, current_data, old_data) ==
  IF fields = <<>>
    THEN changes
    ELSE LET field == Head(fields)
             old_value == old_data[field]
             new_value == current_data[field]
             c == field_change(field, old_value, new_value)
         IN  analyze_loop(
               IF old_value # new_value
                 THEN [has_changes |-> TRUE,
                       fields_changed |-> Append(changes.fields_changed, field),
                       change_summary |-> changes.change_summary \o c.summary,
                       significant_changes |->
                         changes.significant_changes \o c.tags]
                 ELSE changes,
               Tail(fields), current_data, old_data)

analyze_task_changes_always_changed(current_data, old_data) ==
  [analyze_loop(NoChanges, important_fields, current_data, old_data)
     EXCEPT !.has_changes = TRUE]

analyze_task_changes(current_data, old_data) ==
  analyze_loop(NoChanges, important_fields, current_data, old_data)

\* ----------------------------- SpecDiff: analyze_task_changes, called once
InitDiff ==
  /\ agent_lock = AgentLock_init
  /\ now = 1
  /\ ticks = 0
  /\ ncalls = 0
  /\ running = 0
  /\ pc = [p \in Procs |-> "idle"]
  /\ req = [p \in Procs |-> NoReq]
  /\ idx = [p \in Procs |-> 0]
  /\ task = [p \in Procs |-> NoTask]
  /\ cm = [p \in Procs |-> NoCm]
  /\ open = [p \in Procs |-> <<>>]
  /\ stray = [p \in Procs |-> FALSE]
  /\ last = NoOutcome
  /\ plan_start = [p \in Procs |-> None]
  /\ overrun = FALSE
  /\ ev = NoEvent
  /\ \E old_data \in OldSnapshots, current_data \in Snapshots :
       call = [op |-> "analyze_task_changes", current_data |-> current_data,
               old_data |-> old_data, done |-> FALSE, ret |-> NoChanges]

DiffCall ==
  /\ ~call.done
  /\ call' = [call EXCEPT
       !.ret = analyze_task_changes(call.current_data, call.old_data),
       !.done = TRUE]
  /\ UNCHANGED <<agent_lock, now, ticks, ncalls, ev, svars, last, overrun>>

NextDiff == DiffCall

SpecDiff == InitDiff /\ [][NextDiff]_vars

\* ------------------------------------------------ the availability engine
\* Moments are ticks of one clock (every datetime is brought to one timezone
\* before it is compared, and isoformat/isoparse give back the same moment).
\* A day has DayLen ticks: tick 0 is 00:00, the ticks below DayLen - 1 are the
\* times of day HH:MM, the last tick is 23:59:59.999999.
DayLen == 4
NumDays == 2
Horizon == DayLen * NumDays

Min(a, b) == IF a <= b THEN a ELSE b

\* busy_intervals.sort(): tuples (start, end) in lexicographic order
RECURSIVE sort(_)
sort(busy_intervals) ==
  IF busy_intervals = <<>>
    THEN <<>>
    ELSE LET n == Len(busy_intervals)
             before(a, b) == a[1] < b[1] \/ (a[1] = b[1] /\ a[2] <= b[2])
             i == CHOOSE i \in 1 .. n :
                    \A j \in 1 .. n : before(busy_intervals[i], busy_intervals[j])
             rest == [j \in 1 .. n - 1 |->
                        IF j < i THEN busy_intervals[j] ELSE busy_intervals[j + 1]]
         IN  <<busy_intervals[i]>> \o sort(rest)

\* the loop that merges the sorted busy intervals
RECURSIVE merge_loop(_, _)
merge_loop(merged, rest) ==
  IF rest = <<>>
    THEN merged
    ELSE LET interval == Head(rest)
             n == Len(merged)
         IN  IF merged = <<>>
               THEN merge_loop(<<interval>>, Tail(rest))
             ELSE IF interval[1] <= merged[n][2]
               THEN merge_loop(
                      [merged EXCEPT ![n] = <<@[1], Max(@[2], interval[2])>>],
                      Tail(rest))
             ELSE merge_loop(Append(merged, interval), Tail(rest))

merged_strictly_overlapping(busy_intervals) ==
  LET RECURSIVE loop(_, _)
      loop(merged, rest) ==
        IF rest = <<>>
          THEN merged
          ELSE LET interval == Head(rest)
                   n == Len(merged)
               IN  IF merged # <<>> /\ interval[1] < merged[n][2]
                     THEN loop([merged EXCEPT
                                  ![n] = <<@[1], Max(@[2], interval[2])>>],
                               Tail(rest))
                     ELSE loop(Append(merged, interval), Tail(rest))
  IN  loop(<<>>, sort(busy_intervals))

\* get_free_intervals: the merged busy intervals
merged(busy_intervals) ==
  merge_loop(<<>>, sort(busy_intervals))

\* the loop that walks the merged busy intervals and emits the gaps
RECURSIVE free_loop(_, _, _, _)
free_loop(free, current, rest, interval_end) ==
  IF rest = <<>>
    THEN IF current < interval_end
           THEN Append(free, [start |-> current, end |-> interval_end])
           ELSE free
    ELSE LET busy == Head(rest)
         IN  free_loop(IF busy[1] > current
                         THEN Append(free, [start |-> current, end |-> busy[1]])
                         ELSE free,
                       Max(current, busy[2]), Tail(rest), interval_end)

free_intervals_without_last_gap(busy_intervals, interval_start, interval_end) ==
  LET RECURSIVE loop(_, _, _)
      loop(free, current, rest) ==
        IF rest = <<>>
          THEN free
          ELSE LET busy == Head(rest)
               IN  loop(IF busy[1] > current
                          THEN Append(free, [start |-> current, end |-> busy[1]])
                          ELSE free,
                        Max(current, busy[2]), Tail(rest))
  IN  loop(<<>>, interval_start, merged(busy_intervals))

\* get_free_intervals, from the busy intervals of all accounts on
free_intervals(busy_intervals, interval_start, interval_end) ==
  free_loop(<<>>, interval_start, merged(busy_intervals), interval_end)

future_intervals_uncut(free, current_time) ==
  SelectSeq(free, LAMBDA interval : interval.end > current_time)

\* filtered_free_intervals: the intervals that are not wholly in the past,
\* those that start in the past cut to start at current_time
future_intervals(free, current_time) ==
  LET ahead == SelectSeq(free, LAMBDA interval : ~(interval.end <= current_time))
      cut == [i \in 1 .. Len(ahead) |->
                [start |-> Max(ahead[i].start, current_time), end |-> ahead[i].end]]
  IN  SelectSeq(cut, LAMBDA interval : interval.start < interval.end)

day_names ==
  <<"monday", "tuesday", "wednesday", "thursday", "friday", "saturday", "sunday">>

\* current_dt.strftime('%A').lower(); tick 0 is a Monday 00:00
day_name(dt) == day_names[((dt \div DayLen) % 7) + 1]

\* activity_hours.get(day) is None
NoHours == [enabled |-> FALSE, start |-> 0, end |-> 0]

has_any_activity_hours(activity_hours) ==
  \E day \in DOMAIN activity_hours : activity_hours[day].enabled

day_loop_keeps_days_without_hours(current_dt, end_dt, activity_hours) ==
  LET RECURSIVE loop(_)
      loop(dt) ==
        IF ~(dt < end_dt)
          THEN <<>>
          ELSE LET midnight == (dt \div DayLen) * DayLen
                   interval_end_for_day == Min(end_dt, midnight + DayLen - 1)
                   day_hours == activity_hours[day_name(dt)]
                   filtered_start ==
                     IF day_hours.enabled
                       THEN Max(dt, midnight + day_hours.start) ELSE dt
                   filtered_end ==
                     IF day_hours.enabled
                       THEN Min(interval_end_for_day, midnight + day_hours.end)
                       ELSE interval_end_for_day
               IN  (IF filtered_start < filtered_end
                      THEN <<[start |-> filtered_start, end |-> filtered_end]>>
                      ELSE <<>>)
                   \o loop(midnight + DayLen)
  IN  loop(current_dt)

\* the while loop over the days of one free interval
RECURSIVE day_loop(_, _, _)
day_loop(current_dt, end_dt, activity_hours) ==
  IF ~(current_dt < end_dt)
    THEN <<>>
    ELSE LET midnight == (current_dt \div DayLen) * DayLen
             day_end == midnight + DayLen - 1
             interval_end_for_day == Min(end_dt, day_end)
             day_hours == activity_hours[day_name(current_dt)]
             work_start_dt == midnight + day_hours.start
             work_end_dt == midnight + day_hours.end
             filtered_start == Max(current_dt, work_start_dt)
             filtered_end == Min(interval_end_for_day, work_end_dt)
         IN  (IF day_hours.enabled /\ filtered_start < filtered_end
                THEN <<[start |-> filtered_start, end |-> filtered_end]>>
                ELSE <<>>)
             \o day_loop(midnight + DayLen, end_dt, activity_hours)

RECURSIVE filtered_intervals(_, _)
filtered_intervals(free, activity_hours) ==
  IF free = <<>>
    THEN <<>>
    ELSE day_loop(Head(free).start, Head(free).end, activity_hours)
         \o filtered_intervals(Tail(free), activity_hours)

intervals_to_format_always_filtered(free, current_time, override_activity_hours, configured, activity_hours) ==
  filtered_intervals(future_intervals(free, current_time), activity_hours)

\* get_filtered_free_intervals_for_list: the intervals it formats (configured:
\* todos_list in configured_activity_hours)
intervals_to_format(free, current_time, override_activity_hours, configured, activity_hours) ==
  LET future == future_intervals(free, current_time)
  IN  IF override_activity_hours THEN future
      ELSE IF configured
        THEN IF ~has_any_activity_hours(activity_hours)
               THEN future
               ELSE filtered_intervals(future, activity_hours)
      ELSE future

\* ----------------- SpecAvail: one call of get_filtered_free_intervals_for_list
MaxEvents == 2

\* the accounts and their calendars
account_labels == <<"main", "work">>
account_calendar_mapping ==
  [main |-> <<"primary", "family">>, work |-> <<"primary">>]

\* the calendar sources: account and calendar id
Sources ==
  UNION { { <<account, account_calendar_mapping[account][j]>> :
              j \in 1 .. Len(account_calendar_mapping[account]) } :
            account \in DOMAIN account_calendar_mapping }

\* an event of a calendar: timed (start and end carry a dateTime) or all-day
TimedEvents ==
  { [start |-> a, end |-> b, timed |-> TRUE] :
      a \in 0 .. Horizon, b \in 0 .. Horizon }
    \ { e \in [start : 0 .. Horizon, end : 0 .. Horizon, timed : {TRUE}] :
          e.start > e.end }

\* the events a calendar can hold, as lists ordered by start
RECURSIVE EventLists(_, _)
EventLists(events, n) ==
  IF n = 0
    THEN {<<>>}
    ELSE LET shorter == EventLists(events, n - 1)
         IN  shorter \cup
             { Append(l, e) : l \in {x \in shorter : Len(x) = n - 1},
                              e \in events }

Ordered(l) ==
  \A i \in 1 .. Len(l) - 1 :
    \/ l[i].start < l[i + 1].start
    \/ l[i].start = l[i + 1].start /\ l[i].end < l[i + 1].end

CalendarEvents(source) ==
  IF source = <<"main", "primary">>
    THEN {l \in EventLists(TimedEvents, MaxEvents) : Ordered(l)}
  ELSE IF source = <<"main", "family">>
    THEN {<<>>, <<[start |-> 2, end |-> 5, timed |-> TRUE]>>}
  ELSE {<<>>, <<[start |-> 5, end |-> 6, timed |-> TRUE]>>,
        <<[start |-> 0, end |-> DayLen, timed |-> FALSE]>>}

\* events().list(timeMin, timeMax): the events that end after timeMin and
\* start before timeMax
events_list(events, timeMin, timeMax) ==
  SelectSeq(events, LAMBDA e : e.end > timeMin /\ e.start < timeMax)

\* the requested ranges
Ranges == {<<0, Horizon>>, <<1, 6>>, <<3, 4>>}

Pending == [kind |-> "pending", events |-> <<>>]

Answered(c) == c.kind # "pending"

\* fetch_schedule_between of an account has returned, or get_creds raised
AccountDone(c, account) ==
  \/ c.acct[account] # "fetching"
  \/ \A source \in Sources : source[1] = account => Answered(c.cal[source])

RECURSIVE Flatten(_)
Flatten(lists) ==
  IF lists = <<>> THEN <<>> ELSE Head(lists) \o Flatten(Tail(lists))

\* all_events.sort(key=start): a stable sort on the start string, where the
\* date of an all-day event comes before the times of that day
RECURSIVE sort_by_start(_)
sort_by_start(all_events) ==
  IF all_events = <<>>
    THEN <<>>
    ELSE LET n == Len(all_events)
             key(e) == <<e.start, IF e.timed THEN 1 ELSE 0>>
             less(a, b) == a[1] < b[1] \/ (a[1] = b[1] /\ a[2] < b[2])
             i == CHOOSE i \in 1 .. n :
                    /\ \A j \in 1 .. n :
                         ~less(key(all_events[j]), key(all_events[i]))
                    /\ \A j \in 1 .. i - 1 :
                         key(all_events[j]) # key(all_events[i])
             rest == [j \in 1 .. n - 1 |->
                        IF j < i THEN all_events[j] ELSE all_events[j + 1]]
         IN  <<all_events[i]>> \o sort_by_start(rest)

fetch_schedule_between_keeps_partial(c, account) ==
  LET ids == account_calendar_mapping[account]
  IN  sort_by_start(
        Flatten([j \in 1 .. Len(ids) |->
                   IF c.cal[<<account, ids[j]>>].kind = "events"
                     THEN c.cal[<<account, ids[j]>>].events
                     ELSE <<>>]))

\* fetch_schedule_between: the events of the calendars that answered; none
\* when the account's overall timeout fired
fetch_schedule_between(c, account) ==
  IF c.acct[account] = "timeout"
    THEN <<>>
    ELSE LET ids == account_calendar_mapping[account]
         IN  sort_by_start(
               Flatten([j \in 1 .. Len(ids) |->
                          IF c.cal[<<account, ids[j]>>].kind = "events"
                            THEN c.cal[<<account, ids[j]>>].events
                            ELSE <<>>]))

fetch_account_events_all_or_nothing(c, account) ==
  IF \E source \in Sources :
       source[1] = account /\ c.cal[source].kind \in {"error", "timeout"}
    THEN <<>>
    ELSE LET timed == SelectSeq(fetch_schedule_between(c, account),
                                LAMBDA e : e.timed)
         IN  [i \in 1 .. Len(timed) |-> <<timed[i].start, timed[i].end>>]

\* fetch_account_events: the busy intervals of the account's timed events;
\* none when the account could not be read
fetch_account_events(c, account) ==
  IF c.acct[account] = "error"
    THEN <<>>
    ELSE LET timed == SelectSeq(fetch_schedule_between(c, account),
                                LAMBDA e : e.timed)
         IN  [i \in 1 .. Len(timed) |-> <<timed[i].start, timed[i].end>>]

\* the busy intervals of all accounts, in the order of the mapping
gathered(c) ==
  Flatten([i \in 1 .. Len(account_labels) |->
             fetch_account_events(c, account_labels[i])])

NoAvail ==
  [op |-> "get_filtered_free_intervals_for_list", stage |-> "fetching",
   start |-> 0, end |-> 0,
   cal |-> [source \in Sources |-> Pending],
   acct |-> [account \in DOMAIN account_calendar_mapping |-> "fetching"],
   overall_timeout |-> FALSE, lost |-> {}, busy |-> <<>>, free |-> <<>>,
   current_time |-> 0, override |-> FALSE, configured |-> FALSE,
   activity_hours |-> [day \in {"monday"} |-> NoHours], result |-> <<>>]

InitAvail ==
  /\ agent_lock = AgentLock_init
  /\ now = 1
  /\ ticks = 0
  /\ ncalls = 0
  /\ running = 0
  /\ pc = [p \in Procs |-> "idle"]
  /\ req = [p \in Procs |-> NoReq]
  /\ idx = [p \in Procs |-> 0]
  /\ task = [p \in Procs |-> NoTask]
  /\ cm = [p \in Procs |-> NoCm]
  /\ open = [p \in Procs |-> <<>>]
  /\ stray = [p \in Procs |-> FALSE]
  /\ last = NoOutcome
  /\ plan_start = [p \in Procs |-> None]
  /\ overrun = FALSE
  /\ ev = NoEvent
  /\ \E range \in Ranges :
       call = [NoAvail EXCEPT !.start = range[1], !.end = range[2]]

AvailUnchanged ==
  UNCHANGED <<agent_lock, now, ticks, ncalls, ev, svars, last, overrun>>

\* fetch_calendar_events of one calendar returns: the events, or nothing
\* after an error or its timeout
FetchCalendar(source) ==
  /\ call.stage = "fetching"
  /\ call.acct[source[1]] = "fetching"
  /\ ~Answered(call.cal[source])
  /\ \E answer \in
        {[kind |-> "error", events |-> <<>>], [kind |-> "timeout", events |-> <<>>]}
          \cup { [kind |-> "events",
                  events |-> events_list(l, call.start, call.end)] :
                   l \in CalendarEvents(source) } :
       call' = [call EXCEPT !.cal[source] = answer]
  /\ AvailUnchanged

\* get_creds or build raises before any calendar of the account is read
AccountError(account) ==
  /\ call.stage = "fetching"
  /\ call.acct[account] = "fetching"
  /\ \A source \in Sources : source[1] = account => ~Answered(call.cal[source])
  /\ call' = [call EXCEPT !.acct[account] = "error"]
  /\ AvailUnchanged

\* the overall timeout of fetch_schedule_between fires before every calendar
\* of the account has answered
AccountTimeout(account) ==
  /\ call.stage = "fetching"
  /\ ~AccountDone(call, account)
  /\ call' = [call EXCEPT !.acct[account] = "timeout"]
  /\ AvailUnchanged

\* the sources and accounts whose loss was printed
Lost(c) ==
  {source \in Sources : c.cal[source].kind \in {"error", "timeout"}}
    \cup {<<account, c.acct[account]>> :
            account \in {a \in DOMAIN c.acct : c.acct[a] # "fetching"}}

\* get_free_intervals after the gather: busy intervals, merge, free intervals;
\* the tasks of the sources are gone
GetFreeIntervalsReturns(c, busy_intervals, timed_out) ==
  [NoAvail EXCEPT !.stage = "free", !.start = c.start, !.end = c.end,
                  !.overall_timeout = timed_out, !.lost = Lost(c),
                  !.busy = busy_intervals,
                  !.free = free_intervals(busy_intervals, c.start, c.end)]

Gathered ==
  /\ call.stage = "fetching"
  /\ \A account \in DOMAIN account_calendar_mapping : AccountDone(call, account)
  /\ call' = GetFreeIntervalsReturns(call, gathered(call), FALSE)
  /\ AvailUnchanged

\* the overall timeout of get_free_intervals fires before every account is done
GatherTimeout ==
  /\ call.stage = "fetching"
  /\ \E account \in DOMAIN account_calendar_mapping : ~AccountDone(call, account)
  /\ call' = GetFreeIntervalsReturns(call, <<>>, TRUE)
  /\ AvailUnchanged

\* the times of day HH:MM of an activity-hours window
Windows ==
  {NoHours} \cup
  { [enabled |-> TRUE, start |-> a, end |-> b] :
      a \in 0 .. DayLen - 2, b \in 1 .. DayLen - 2 }

\* settings["activity_hours"][todos_list]
ActivityHours ==
  { [day \in {day_names[i] : i \in 1 .. 7} |->
       IF day = "monday" THEN m ELSE IF day = "tuesday" THEN t ELSE NoHours] :
      m \in Windows, t \in {NoHours, [enabled |-> TRUE, start |-> 0, end |-> 2]} }

\* override flag, whether the list has activity hours configured, and which
Policies ==
  {[override |-> TRUE, configured |-> TRUE,
    activity_hours |-> [day \in {day_names[i] : i \in 1 .. 7} |-> NoHours]],
   [override |-> FALSE, configured |-> FALSE,
    activity_hours |-> [day \in {day_names[i] : i \in 1 .. 7} |-> NoHours]]}
    \cup [override : BOOLEAN, configured : {TRUE}, activity_hours : ActivityHours]

CurrentTimes == {0, 2, DayLen + 1}

\* get_filtered_free_intervals_for_list after get_free_intervals returned; the
\* locals of get_free_intervals are gone
Filtered ==
  /\ call.stage = "free"
  /\ \E current_time \in CurrentTimes, policy \in Policies :
      LET override == policy.override
          configured == policy.configured
          activity_hours == policy.activity_hours
      IN
       call' = [NoAvail EXCEPT
                  !.stage = "filtered", !.start = call.start, !.end = call.end,
                  !.free = call.free, !.current_time = current_time,
                  !.override = override, !.configured = configured,
                  !.activity_hours = activity_hours,
                  !.result = intervals_to_format(call.free, current_time,
                               override, configured, activity_hours)]
  /\ AvailUnchanged

NextAvail ==
  \/ \E source \in Sources : FetchCalendar(source)
  \/ \E account \in DOMAIN account_calendar_mapping : AccountError(account)
  \/ \E account \in DOMAIN account_calendar_mapping : AccountTimeout(account)
  \/ Gathered
  \/ GatherTimeout
  \/ Filtered

SpecAvail == InitAvail /\ [][NextAvail]_vars

\* ------------------------------ SpecText: the availability text, rendered once
\* the "Single formatting section": a header line when the weekday name of a
\* slot differs from the weekday name of the slot before it, then the slot's
\* line with its times of day and its minutes, and the total at the end
RECURSIVE format_loop(_, _, _)
format_loop(lines, current_day, intervals) ==
  IF intervals = <<>>
    THEN lines
    ELSE LET start_dt == Head(intervals).start
             end_dt == Head(intervals).end
             day == day_name(start_dt)
             header == [kind |-> "header", day |-> day,
                        date_str |-> start_dt \div DayLen,
                        start_time |-> 0, end_time |-> 0, duration_minutes |-> 0]
             slot == [kind |-> "slot", day |-> "", date_str |-> 0,
                      start_time |-> start_dt % DayLen,
                      end_time |-> end_dt % DayLen,
                      duration_minutes |-> end_dt - start_dt]
         IN  format_loop(
               lines \o (IF day # current_day THEN <<header>> ELSE <<>>)
                     \o <<slot>>,
               day, Tail(intervals))

\* the text get_filtered_free_intervals_for_list returns
formatted_text(intervals) ==
  IF intervals = <<>>
    THEN [found |-> FALSE, lines |-> <<>>, total |-> 0]
    ELSE [found |-> TRUE,
          lines |-> format_loop(<<>>, "None", intervals),
          total |-> Len(intervals)]

\* the slots a result can hold: on a Monday, the Tuesday after it, and the
\* Monday, Tuesday and second Monday that follow
Slots ==
  <<[start |-> 1, end |-> 2], [start |-> 2, end |-> 3],
    [start |-> DayLen + 1, end |-> DayLen + 2],
    [start |-> 7 * DayLen, end |-> 7 * DayLen + 2],
    [start |-> 7 * DayLen + 2, end |-> 8 * DayLen + 1],
    [start |-> 8 * DayLen + 1, end |-> 8 * DayLen + 2],
    [start |-> 14 * DayLen + 1, end |-> 14 * DayLen + 2]>>

InitText ==
  /\ agent_lock = AgentLock_init
  /\ now = 1
  /\ ticks = 0
  /\ ncalls = 0
  /\ running = 0
  /\ pc = [p \in Procs |-> "idle"]
  /\ req = [p \in Procs |-> NoReq]
  /\ idx = [p \in Procs |-> 0]
  /\ task = [p \in Procs |-> NoTask]
  /\ cm = [p \in Procs |-> NoCm]
  /\ open = [p \in Procs |-> <<>>]
  /\ stray = [p \in Procs |-> FALSE]
  /\ last = NoOutcome
  /\ plan_start = [p \in Procs |-> None]
  /\ overrun = FALSE
  /\ ev = NoEvent
  /\ \E kept \in SUBSET (1 .. Len(Slots)) :
       call = [op |-> "formatting",
               intervals |->
                 SelectSeq(Slots, LAMBDA slot :
                   \E i \in kept : Slots[i] = slot),
               done |-> FALSE,
               ret |-> [found |-> FALSE, lines |-> <<>>, total |-> 0]]

TextCall ==
  /\ ~call.done
  /\ call' = [call EXCEPT !.ret = formatted_text(call.intervals),
                          !.done = TRUE]
  /\ UNCHANGED <<agent_lock, now, ticks, ncalls, ev, svars, last, overrun>>

NextText == TextCall

SpecText == InitText /\ [][NextText]_vars

\* ------------------------------------------------- Spec: the webhook server
Next ==
  \/ \E p \in Procs : webhook_receiver(p)
  \/ \E p \in Procs : calendar_webhook_receiver(p)
  \/ \E p \in Procs : calendar_event(p)
  \/ \E p \in Procs : planner_returns(p)
  \/ \E p \in Procs : await_returns(p)
  \/ Tick

Spec == Init /\ [][Next]_vars

\* ------------------------------------------------------ guard: definitions
Idle(g) == ~g.is_agent_working /\ ~g.is_cooldown
Working(g) == g.is_agent_working /\ ~g.is_cooldown
Cooldown(g) == g.is_cooldown /\ ~g.is_agent_working
\* seconds between the start of the working period of g and time t
WorkElapsed(g, t) == t - g.agent_start_time
\* seconds between the start of the cooldown of g and time t
CoolElapsed(g, t) == t - g.cooldown_start_time

\* C2: of the acquire calls made at one instant on an Idle guard exactly one
\* is answered 'acquired': a call that finds the guard Idle is acquired and
\* leaves it Working for the caller, and a call made at the very instant of
\* another caller's acquisition is refused and changes nothing.
C2_OneAcquirerFromIdle ==
  call.op = "acquire" =>
    /\ Idle(call.pre) =>
         /\ call.ret
         /\ Working(agent_lock)
         /\ agent_lock.current_task_id = call.task
         /\ agent_lock.agent_start_time = call.at
    /\ (Working(call.pre) /\ call.pre.agent_start_time = call.at) =>
         /\ ~call.ret
         /\ agent_lock = call.pre

C2_Witness ==
  /\ call.op = "acquire"
  /\ ~call.ret
  /\ Working(call.pre)
  /\ call.pre.agent_start_time = call.at
  /\ call.pre.current_task_id # call.task
  /\ agent_lock.current_task_id = call.pre.current_task_id

\* C3: the working flag and the cooldown flag are never both true.
C3_FlagsExclusive ==
  ~(agent_lock.is_agent_working /\ agent_lock.is_cooldown)

C3_Witness ==
  /\ ncalls >= 3
  /\ call.op = "acquire"
  /\ call.ret
  /\ Cooldown(call.pre)
  /\ Working(agent_lock)

\* C4: an acquire made while the guard is Working and less than the timeout
\* has elapsed since the work started returns not-acquired and leaves the
\* whole guard state unchanged.
C4_BusyAcquireRefused ==
  ( /\ call.op = "acquire"
    /\ call.pre.is_agent_working
    /\ WorkElapsed(call.pre, call.at) < timeout_seconds )
  => (~call.ret /\ agent_lock = call.pre)

C4_Witness ==
  /\ call.op = "acquire"
  /\ call.pre.is_agent_working
  /\ WorkElapsed(call.pre, call.at) = timeout_seconds - 1
  /\ call.task # call.pre.current_task_id
  /\ ~call.ret

\* C5: an acquire made while the guard is Working and more than the timeout
\* has elapsed since the work started succeeds, and records the caller as
\* holder with the time of the call as work-start time.
C5_TimeoutForcesAcquire ==
  ( /\ call.op = "acquire"
    /\ call.pre.is_agent_working
    /\ WorkElapsed(call.pre, call.at) > timeout_seconds )
  => /\ call.ret
     /\ Working(agent_lock)
     /\ agent_lock.current_task_id = call.task
     /\ agent_lock.agent_start_time = call.at

C5_Witness ==
  /\ call.op = "acquire"
  /\ call.pre.is_agent_working
  /\ WorkElapsed(call.pre, call.at) > timeout_seconds
  /\ call.task # call.pre.current_task_id
  /\ call.ret

\* C6: an acquire (by any task id) made while the guard is in Cooldown is
\* refused, leaving the guard unchanged, as long as no more than the cooldown
\* duration has elapsed since the release; once more has elapsed it succeeds
\* and the guard is Working for the caller.
C6_CooldownWindow ==
  (call.op = "acquire" /\ call.pre.is_cooldown) =>
    IF CoolElapsed(call.pre, call.at) <= cooldown_seconds
      THEN ~call.ret /\ agent_lock = call.pre
      ELSE /\ call.ret
           /\ Working(agent_lock)
           /\ agent_lock.current_task_id = call.task
           /\ agent_lock.agent_start_time = call.at

C6_Witness ==
  /\ call.op = "acquire"
  /\ call.pre.is_cooldown
  /\ CoolElapsed(call.pre, call.at) = cooldown_seconds
  /\ call.task # call.pre.current_task_id
  /\ ~call.ret

\* C7: a release by the holder of a Working guard puts the guard in Cooldown
\* with the time of the call as cooldown-start time; a release by another
\* task id while the guard is Working changes no field of the guard.
C7_ReleaseEffect ==
  (call.op = "release" /\ call.pre.is_agent_working) =>
    IF call.task = call.pre.current_task_id
      THEN /\ Cooldown(agent_lock)
           /\ agent_lock.cooldown_start_time = call.at
      ELSE agent_lock = call.pre

C7_Witness ==
  /\ call.op = "release"
  /\ call.pre.is_agent_working
  /\ call.task # call.pre.current_task_id
  /\ Working(agent_lock)

\* a guard state whose working timeout or cooldown duration has elapsed at t
Stale(g, t) ==
  \/ g.is_agent_working /\ g.agent_start_time # None
       /\ WorkElapsed(g, t) > timeout_seconds
  \/ g.is_cooldown /\ g.cooldown_start_time # None
       /\ CoolElapsed(g, t) > cooldown_seconds

\* C8: a get_status call made once the working timeout or the cooldown
\* duration has elapsed reports the guard as not locked.
C8_StatusSelfHealing ==
  (call.op = "get_status" /\ Stale(call.pre, call.at)) =>
    ~call.status.is_locked

\* ------------------------------------------------- requests: definitions
\* the requests whose call of schedule_initial_tasks_agent is in flight
InFlight == {p \in Procs : pc[p] = "planning"}

\* C1 (as stated): at every instant at most one call of the planner is in
\* flight, for planner calls of any duration.
C1_AtMostOnePlannerCall == Cardinality(InFlight) <= 1

\* C1 (amended): at every instant at most one call of the planner is in
\* flight, as long as no planner call has stayed in flight for longer than
\* the working timeout.
C1_AtMostOnePlannerCallWithinTimeout ==
  ~overrun => Cardinality(InFlight) <= 1

C1_Witness ==
  /\ ~overrun
  /\ ticks >= 1
  /\ Cardinality(InFlight) = 1
  /\ last.status = "blocked"
  /\ last.msg = "agent_busy"

\* C9: every acquire of a handler that succeeded is followed by exactly one
\* release call with the same task id on every way out of the guarded block:
\* a request holds an unreleased acquire, of the task id of its context
\* manager, exactly while its planner call is in flight, and it never makes a
\* release call that closes no acquire of its own.
C9_AcquireReleasedOnce ==
  \A p \in Procs :
    /\ ~stray[p]
    /\ pc[p] = "planning" => (cm[p].acquired /\ open[p] = <<cm[p].task_id>>)
    /\ pc[p] # "planning" => open[p] = <<>>

C9_Witness ==
  /\ last.msg = "planner raised"
  /\ Cooldown(agent_lock)
  /\ \A p \in Procs : open[p] = <<>> /\ ~stray[p]

\* C10: no handler run by the router has its acquire refused.
C10_NoRefusalInsideRouter == last.msg # "Agent is busy"

\* a guard that is Working and not timed out, or in Cooldown and not expired
Busy(g, t) ==
  \/ g.is_agent_working /\ WorkElapsed(g, t) <= timeout_seconds
  \/ g.is_cooldown /\ CoolElapsed(g, t) <= cooldown_seconds

\* C11: a todoist or calendar webhook that arrives while the guard is Working
\* and not timed out, or in Cooldown and not expired, is answered 'blocked'
\* with the reason (agent_busy when Working, agent_cooldown in Cooldown) and
\* a retry-after hint; no handler is started for it and the guard is unchanged.
C11_BlockedAtTransport ==
  [][ ( /\ Busy(agent_lock, now)
        /\ \E p \in Procs : webhook_receiver(p) \/ calendar_webhook_receiver(p) )
      => /\ last'.status = "blocked"
         /\ last'.msg = IF agent_lock.is_cooldown THEN "agent_cooldown"
                                                  ELSE "agent_busy"
         /\ last'.retry_after_seconds = IF agent_lock.is_cooldown THEN 5 ELSE 30
         /\ agent_lock' = agent_lock
         /\ UNCHANGED svars ]_vars

C11_Witness ==
  /\ last.status = "blocked"
  /\ last.event_name = "calendar:event_end"
  /\ last.msg = "agent_cooldown"
  /\ last.retry_after_seconds = 5
  /\ CoolElapsed(agent_lock, now) = cooldown_seconds

\* C12: the outcome the router gives for an event carries a message (its
\* result is never None).
C12_OutcomeHasMessage ==
  last.status \in {"success", "error"} => last.msg # "None"

\* the outcomes of an event during whose handling a collaborator raised: the
\* planner, remove_task_scheduling, get_task_details
CollaboratorRaised(o) ==
  o.msg \in {"planner raised", "Processing failed", "task_not_found",
             "fetch_failed"}

\* C13: when a collaborator raised while an event was handled, the router's
\* result for the event has status "error" and the outcome is logged as a
\* failure.
C13_RaiseGivesErrorResult ==
  CollaboratorRaised(last) => (last.status = "error" /\ last.log = "failed")

\* ---------------------------------------------------------------------------
\* The events whose handlers apply the allow/skip policy, and what SpecHandler
\* records about the one run of the router.
PolicyEvents == {"item:added", "item:updated", "calendar:event_end"}

\* the handler tried to acquire the guard (it got it, or it was refused)
TriedGuard(e) == e.acq # <<>> \/ e.refused

\* The task the event is about carries a recognized label. The calendar
\* handler sees the labels of the task it fetched, not of the event.
ManualTask(e) ==
  /\ e.event_name \in PolicyEvents
  /\ e.event_name = "calendar:event_end" => e.d.fetch = "ok"
  /\ \E label \in e.d.labels : label \in manual_scheduled_variants

\* an added event whose project is configured for auto-categorization
CategorizationFires(e) ==
  e.event_name = "item:added" /\ e.d.has_project /\ e.d.configured

WarrantsReschedule(d) ==
  /\ d.has_old /\ d.has_changes
  /\ d.priority_changed \/ is_overdue(d.due, d.duration, now_local)

\* The event reaches the handler's look-up of the task's category: no manual
\* label, an added event's categorization does not fire, an update warrants
\* rescheduling, the calendar handler fetched the task.
ReachesPolicy(e) ==
  /\ e.event_name \in PolicyEvents
  /\ ~ManualTask(e)
  /\ ~CategorizationFires(e)
  /\ e.event_name = "item:updated" => WarrantsReschedule(e.d)
  /\ e.event_name = "calendar:event_end" => e.d.fetch = "ok"

\* the task's project maps to no todos_list (or the task has no project)
Unmapped(d) == ~d.has_project \/ ~d.mapped

\* C15: an added, updated or calendar-slot-ended event whose task maps to no
\* known category ends as a policy skip with a reason: the guard is not
\* acquired, the planner is not invoked, and the outcome is neither logged nor
\* reported as a failure.
C15_UnmappedIsSkipped ==
  (ReachesPolicy(ev) /\ Unmapped(ev.d)) =>
    /\ ~TriedGuard(ev) /\ ~ev.planned
    /\ ev.next = "done" =>
         /\ last.log = "skipped"
         /\ last.msg \in {"no_project_id", "no_todos_list_mapping"}
         /\ last.status = "success"

\* C16: in every run of the added, updated and calendar-slot-ended handlers
\* the planner is invoked only after should_auto_schedule_by_priority was
\* evaluated for that event and allowed it; no other handler invokes it.
C16_PlannerOnlyAfterGate ==
  ev.planned => (ev.event_name \in PolicyEvents /\ ev.d.allow)

C16_Witness ==
  /\ ev.planned /\ ev.next = "done"
  /\ ev.event_name = "item:added" /\ ev.d.allow
  /\ Cooldown(ev.pre) /\ ev.acq = <<ev.task_id>> /\ ev.rel = <<ev.task_id>>

\* C17: the gate treats an absent priority exactly as priority 1 (same
\* decision, reason citing effective priority 1); it is monotonic (when a
\* priority is allowed, so is every higher one under the same settings); with
\* threshold 1 an absent-priority task is scheduled, with threshold 3 it is
\* skipped.
C17_AbsentIsOneAndMonotonic ==
  call.done =>
    LET priority == call.priority
        list_settings == call.list_settings
        r == call.ret
        plain == list_settings.enabled /\ ~list_settings.raises
    IN  /\ priority = None =>
             /\ r = should_auto_schedule_by_priority(1, list_settings)
             /\ r.reason.kind # "disabled" => r.reason.priority = 1
        /\ r.allow =>
             \A higher \in Priorities :
               higher >= effective_priority(priority) =>
                 should_auto_schedule_by_priority(higher, list_settings).allow
        /\ (priority = None /\ plain /\ list_settings.min_priority = 1) => r.allow
        /\ (priority = None /\ plain /\ list_settings.min_priority = 3) =>
             (~r.allow /\ r.reason.kind = "below" /\ r.reason.threshold = 3)

C17_Witness ==
  /\ call.done /\ call.priority = None
  /\ call.list_settings = [min_priority |-> 3, enabled |-> TRUE, raises |-> FALSE]
  /\ ~call.ret.allow /\ call.ret.reason.priority = 1

\* the allow/skip policy lets the task through
PolicyAllows(d) ==
  /\ ~has_manual_scheduled_label(d)
  /\ d.has_project /\ d.mapped /\ d.allow

EndMoment(d) ==
  d.due.at + (CASE d.duration.kind = "absent" -> 0
                [] d.duration.unit = "minute" -> d.duration.amount
                [] d.duration.unit = "hour" -> 60 * d.duration.amount
                [] d.duration.unit = "day" -> 1440 * d.duration.amount)

\* C19: on an updated event for a task without manual label the handler
\* attempts a reschedule (it goes for the guard) if and only if the old
\* snapshot is there, a tracked field changed, and the priority changed or the
\* task is overdue (its due moment plus duration is strictly before now); an
\* update that changes no priority on a task that is not overdue ends with
\* 'no rescheduling needed' and without the guard.
C19_RescheduleIffWarranted ==
  (ev.event_name = "item:updated" /\ ~ManualTask(ev) /\ ev.next # "router") =>
    LET d == ev.d
        overdue == d.due.kind = "moment" /\ EndMoment(d) < now_local
    IN  /\ TriedGuard(ev) <=>
             (d.has_old /\ d.has_changes /\ (d.priority_changed \/ overdue))
        /\ (d.has_old /\ d.has_changes /\ ~d.priority_changed /\ ~overdue) =>
             /\ ev.next = "done" /\ last.msg = "no_rescheduling_needed"
             /\ ev.acq = <<>> /\ agent_lock = ev.pre

C19_Witness ==
  /\ ev.event_name = "item:updated" /\ ~ManualTask(ev) /\ ev.next = "done"
  /\ ev.d.has_old /\ ev.d.has_changes /\ ~ev.d.priority_changed
  /\ ev.d.due = [kind |-> "moment", at |-> 1940]
  /\ ev.d.duration = [kind |-> "given", amount |-> 1, unit |-> "hour"]
  /\ last.msg = "no_rescheduling_needed"

\* C20: on an updated event that warrants rescheduling the threshold gate is
\* evaluated before the guard is acquired: when the gate refuses the task
\* (priority below the threshold, or automation disabled for the category) the
\* handler has not gone for the guard, the guard is as it was and no cooldown
\* has started, and the event ends as a skip.
C20_GateBeforeGuard ==
  ( /\ ev.event_name = "item:updated" /\ ev.next = "done"
    /\ ~ManualTask(ev) /\ WarrantsReschedule(ev.d)
    /\ ~Unmapped(ev.d) /\ ~ev.d.allow ) =>
      /\ ~TriedGuard(ev) /\ ev.rel = <<>>
      /\ agent_lock = ev.pre
      /\ last.log = "skipped" /\ last.msg = "priority_below_threshold"

\* the calls of the event's handler to the task service operation op
ServiceCalls(e, op) == SelectSeq(e.svc, LAMBDA c : c.op = op)

\* C21 as stated: a completed event always has the task service clear the
\* task's scheduling and is always reported as processed, never as an error,
\* whatever the task id and whatever the task service answers.
C21_CompletedAlwaysProcessed ==
  (ev.event_name = "item:completed" /\ ev.next # "router") =>
    /\ Len(ServiceCalls(ev, "remove_task_scheduling")) = 1
    /\ ev.next = "done" => (last.log = "completed" /\ last.status = "success")

\* C21 amended: a completed event never touches the guard or the planner; when
\* it carries a task id the handler asks the task service once to clear the
\* scheduling, and the event is reported as processed whatever the service
\* answers (a failure status too); without a task id nothing is asked and it is
\* reported as processed; when the call to the service raises, the router
\* reports the event as an error.
C21_CompletedProcessedUnlessRaised ==
  (ev.event_name = "item:completed" /\ ev.next # "router") =>
    LET calls == ServiceCalls(ev, "remove_task_scheduling")
    IN  /\ ~TriedGuard(ev) /\ ~ev.planned /\ agent_lock = ev.pre
        /\ Len(calls) = IF ev.d.has_id THEN 1 ELSE 0
        /\ ev.next = "done" =>
             IF ev.d.has_id /\ ev.d.remove = "raises"
               THEN last.status = "error" /\ last.log = "failed"
               ELSE last.status = "success" /\ last.log = "completed"

C21_Witness ==
  /\ ev.event_name = "item:completed" /\ ev.next = "done"
  /\ ev.d.has_id /\ ev.d.remove = "failed"
  /\ ev.svc = <<[op |-> "remove_task_scheduling", answer |-> "failed"]>>
  /\ last.log = "completed" /\ last.status = "success"

\* C22: completed, deleted and unknown events never acquire the guard and
\* never invoke the planner, and leave the guard as it was; a deleted event
\* calls no service and is reported as processed; an unknown event type is
\* reported as ignored, not as an error.
C22_PassiveEventsLeaveGuard ==
  ( /\ ev.event_name \in {"item:completed", "item:deleted", "item:other"}
    /\ ev.next # "router" ) =>
      /\ ~TriedGuard(ev) /\ ~ev.planned /\ ev.rel = <<>>
      /\ agent_lock = ev.pre
      /\ ev.event_name = "item:deleted" =>
           /\ ev.svc = <<>>
           /\ ev.next = "done" =>
                (last.log = "deleted" /\ last.status = "success")
      /\ ev.event_name = "item:other" =>
           /\ ev.next = "done" /\ ev.svc = <<>>
           /\ last.log = "ignored" /\ last.msg = "unknown_event_type"
           /\ last.status = "success"

C22_Witness ==
  /\ ev.event_name = "item:deleted" /\ ev.next = "done"
  /\ Working(ev.pre) /\ agent_lock = ev.pre
  /\ last.log = "deleted" /\ last.status = "success"

\* C23: on a calendar-slot-ended event the handler fetches the task from the
\* task service before anything else; when the task is not found the event is
\* reported as skipped, not as a failure, and the handler neither goes for the
\* guard nor invokes the planner.
C23_CalendarNotFoundIsSkipped ==
  (ev.event_name = "calendar:event_end" /\ ev.next # "router") =>
    /\ ev.svc # <<>> /\ ev.svc[1].op = "get_task_details"
    /\ ev.d.fetch = "not_found" =>
         /\ ev.next = "done" /\ ~TriedGuard(ev) /\ ~ev.planned
         /\ last.log = "skipped" /\ last.status = "success"

\* ---------------------------------------------------------------------------
\* The availability engine. Time is cut in cells [t, t + 1) between ticks.
InFree(t, free) == \E i \in 1 .. Len(free) : free[i].start <= t /\ t < free[i].end
InBusy(t, busy) == \E i \in 1 .. Len(busy) : busy[i][1] <= t /\ t < busy[i][2]

\* C24: the free intervals get_free_intervals returns and the merged busy
\* intervals tile the requested range [start, end): every free interval lies in
\* the range, every cell of the range is in exactly one free interval or in
\* exactly one merged busy interval, never in both; busy [2,4) and [3,6) over
\* [0,8) give free [0,2) and [6,8).
C24_FreeAndBusyTileRange ==
  call.stage = "free" =>
    LET free == call.free
        busy == merged(call.busy)
        one(n, covers(_)) == Cardinality({i \in 1 .. n : covers(i)}) = 1
    IN  /\ \A i \in 1 .. Len(free) :
             call.start <= free[i].start /\ free[i].start < free[i].end
               /\ free[i].end <= call.end
        /\ \A t \in call.start .. call.end - 1 :
             /\ InFree(t, free) # InBusy(t, busy)
             /\ InFree(t, free) =>
                  one(Len(free), LAMBDA i : free[i].start <= t /\ t < free[i].end)
             /\ InBusy(t, busy) =>
                  one(Len(busy), LAMBDA i : busy[i][1] <= t /\ t < busy[i][2])
        /\ (call.busy = <<<<2, 4>>, <<3, 6>>>> /\ call.start = 0 /\ call.end = 8) =>
             free = <<[start |-> 0, end |-> 2], [start |-> 6, end |-> 8]>>

C24_Witness ==
  /\ call.stage = "free" /\ ~call.overall_timeout
  /\ call.start = 0 /\ call.end = 8
  /\ call.busy = <<<<2, 4>>, <<3, 6>>>>
  /\ merged(call.busy) = <<<<2, 6>>>>
  /\ call.free = <<[start |-> 0, end |-> 2], [start |-> 6, end |-> 8]>>

\* C25: merging busy intervals is idempotent: for every set of busy intervals
\* the merged result is sorted, every interval of it starts strictly after the
\* previous one ends, and merging the merged result again gives the same
\* result.
C25_MergeIsIdempotent ==
  call.stage = "free" =>
    LET m == merged(call.busy)
    IN  /\ \A i \in 1 .. Len(m) - 1 : m[i][2] < m[i + 1][1]
        /\ m = sort(m)
        /\ merged(m) = m

C25_Witness ==
  /\ call.stage = "free"
  /\ Len(call.busy) >= 3
  /\ Len(merged(call.busy)) = 2
  /\ \E i, j \in 1 .. Len(call.busy) : i # j /\ call.busy[i][2] = call.busy[j][1]

\* C26: in every result of the filtered free intervals the intervals are in
\* chronological order and pairwise non-overlapping, each has positive length,
\* and none starts before the query time: an interval wholly in the past is
\* dropped, one that straddles the query time starts at the query time.
C26_ResultOrderedDisjointAhead ==
  call.stage = "filtered" =>
    LET r == call.result
    IN  /\ \A i \in 1 .. Len(r) :
             r[i].start < r[i].end /\ call.current_time <= r[i].start
        /\ \A i \in 1 .. Len(r) - 1 : r[i].end <= r[i + 1].start
        /\ \A i, j \in 1 .. Len(r) :
             i # j => (r[i].end <= r[j].start \/ r[j].end <= r[i].start)
        /\ \A i \in 1 .. Len(call.free) :
             /\ call.free[i].end <= call.current_time =>
                  \A j \in 1 .. Len(r) : r[j].start >= call.current_time
             /\ (call.free[i].start < call.current_time
                   /\ call.current_time < call.free[i].end
                   /\ (call.override \/ ~call.configured)) =>
                  \E j \in 1 .. Len(r) :
                    r[j] = [start |-> call.current_time, end |-> call.free[i].end]

C26_Witness ==
  /\ call.stage = "filtered"
  /\ Len(call.result) >= 2
  /\ \E i \in 1 .. Len(call.free) : call.free[i].end <= call.current_time
  /\ \E i \in 1 .. Len(call.free) :
       /\ call.free[i].start < call.current_time
       /\ call.current_time < call.free[i].end
       /\ call.result[1] = [start |-> call.current_time, end |-> call.free[i].end]

\* C27: when the override flag is set, or the list's activity hours have every
\* weekday disabled, the result is exactly the free intervals clipped to the
\* query time, in their order, with no hour restriction applied: one interval
\* [max(start, now), end) for every free interval that ends after now.
C27_OverrideOrNoDayIsIdentity ==
  (/\ call.stage = "filtered"
   /\ \/ call.override
      \/ call.configured /\ ~has_any_activity_hours(call.activity_hours)) =>
    LET r == call.result
        kept == {i \in 1 .. Len(call.free) : call.free[i].end > call.current_time}
        clipped(i) == [start |-> Max(call.free[i].start, call.current_time),
                       end |-> call.free[i].end]
    IN  /\ Len(r) = Cardinality(kept)
        /\ \A i \in kept :
             r[Cardinality({j \in kept : j <= i})] = clipped(i)

C27_Witness ==
  /\ call.stage = "filtered"
  /\ ~call.override
  /\ call.configured /\ ~has_any_activity_hours(call.activity_hours)
  /\ Len(call.free) = 3 /\ Len(call.result) = 2
  /\ call.result[1].start = call.current_time
  /\ call.free[2].start < call.current_time

\* the window of the weekday a moment falls on, and whether the cell
\* [t, t + 1) is inside it
HoursAt(t, activity_hours) == activity_hours[day_name(t)]
InWindow(t, activity_hours) ==
  LET hours == HoursAt(t, activity_hours)
  IN  hours.enabled /\ hours.start <= t % DayLen /\ t % DayLen < hours.end

\* C28: with activity hours that have at least one day enabled, every interval
\* of the filtered result has positive length, lies within one calendar day
\* and inside the window of that day's weekday; a weekday with no window
\* contributes no interval; the result covers exactly the future free time
\* that is inside a window. With Monday 09:00-17:00 only (ticks 1 to 2 of the
\* day), free [Mon 07:00, Mon 20:00) (ticks 0 to 3) filters to
\* [Mon 09:00, Mon 17:00).
C28_ResultInsideDayWindow ==
  (/\ call.stage = "filtered" /\ ~call.override /\ call.configured
   /\ has_any_activity_hours(call.activity_hours)) =>
    LET r == call.result
        hours == call.activity_hours
    IN  /\ \A i \in 1 .. Len(r) :
             LET midnight == (r[i].start \div DayLen) * DayLen
                 day == HoursAt(r[i].start, hours)
             IN  /\ r[i].start < r[i].end
                 /\ r[i].end < midnight + DayLen
                 /\ day.enabled
                 /\ midnight + day.start <= r[i].start
                 /\ r[i].end <= midnight + day.end
        /\ \A t \in 0 .. Horizon - 1 :
             InFree(t, r) <=>
               (InFree(t, call.free) /\ call.current_time <= t /\ InWindow(t, hours))
        /\ (/\ call.free = <<[start |-> 0, end |-> 3]>> /\ call.current_time = 0
            /\ hours["monday"] = [enabled |-> TRUE, start |-> 1, end |-> 2]
            /\ ~hours["tuesday"].enabled) =>
             r = <<[start |-> 1, end |-> 2]>>

C28_Witness ==
  /\ call.stage = "filtered" /\ ~call.override /\ call.configured
  /\ call.free = <<[start |-> 0, end |-> 3]>> /\ call.current_time = 0
  /\ call.activity_hours["monday"] = [enabled |-> TRUE, start |-> 1, end |-> 2]
  /\ ~call.activity_hours["tuesday"].enabled
  /\ call.result = <<[start |-> 1, end |-> 2]>>

\* the busy intervals of the timed events a set of sources answered with
AnsweredBusy(c, sources) ==
  UNION { { <<c.cal[source].events[i].start, c.cal[source].events[i].end>> :
              i \in {k \in 1 .. Len(c.cal[source].events) :
                       c.cal[source].events[k].timed} } :
            source \in {x \in sources : c.cal[x].kind = "events"} }

BusySet(c) == {c.busy[i] : i \in 1 .. Len(c.busy)}

\* C29 as stated: a source that errors or times out contributes no busy
\* interval and does not affect the others: whenever get_free_intervals
\* returns, the busy set it used is the union of the busy intervals of exactly
\* the sources that answered.
C29_BusyIsUnionOfAnswered ==
  [][(call.stage = "fetching" /\ call'.stage = "free") =>
       BusySet(call') = AnsweredBusy(call, Sources)]_vars

\* C29: a source that errors or times out contributes no busy interval and
\* does not affect the others, and get_free_intervals returns: the busy set it
\* used is the union of the busy intervals of exactly the sources that
\* answered, unless an overall timeout fired: the overall timeout of an account
\* leaves out every source of that account, the overall timeout of the whole
\* fetch leaves the busy set empty.
C29_BusyIsUnionOfAnsweredUnlessOverallTimeout ==
  [][(call.stage = "fetching" /\ call'.stage = "free") =>
       /\ call'.overall_timeout => call'.busy = <<>>
       /\ ~call'.overall_timeout =>
            BusySet(call') =
              AnsweredBusy(call, {source \in Sources :
                                   call.acct[source[1]] # "timeout"})]_vars

C29_Witness ==
  /\ call.stage = "free" /\ ~call.overall_timeout
  /\ <<"main", "family">> \in call.lost
  /\ <<"work", "error">> \in call.lost
  /\ <<"main", "timeout">> \notin call.lost
  /\ call.busy = <<<<0, 1>>, <<6, 7>>>>

\* the fetch failed wholly: the overall timeout fired, or the loss of every
\* source was printed (its own error or timeout, or its account's)
WhollyFailed(c) ==
  \/ c.overall_timeout
  \/ \A source \in Sources :
       \/ source \in c.lost
       \/ <<source[1], "error">> \in c.lost
       \/ <<source[1], "timeout">> \in c.lost

\* C30 as stated: when the fetch fails wholly (every source errors, or the
\* overall operation times out) the availability operation yields an empty
\* list.
C30_WhollyFailedYieldsEmptyList ==
  (call.stage = "free" /\ WhollyFailed(call)) => call.free = <<>>

\* C30: when the fetch fails wholly (every source errors, or the overall
\* operation times out) the availability operation does not raise: it goes on
\* with an empty list of busy intervals and returns a well-formed result, the
\* whole requested range as one free interval.
C30_WhollyFailedYieldsEmptyBusyList ==
  (call.stage = "free" /\ WhollyFailed(call)) =>
    /\ call.busy = <<>>
    /\ call.free = <<[start |-> call.start, end |-> call.end]>>

C30_Witness ==
  /\ call.stage = "free" /\ ~call.overall_timeout
  /\ call.lost = {<<"main", "timeout">>, <<"work", "primary">>}
  /\ call.start = 1 /\ call.end = 6
  /\ call.free = <<[start |-> 1, end |-> 6]>>

\* C31: diffing a task snapshot against itself finds nothing: has_changes is
\* false, and there are no changed fields, no summary lines and no
\* significant-change tags.
C31_SelfDiffIsEmpty ==
  (call.op = "analyze_task_changes" /\ call.done
     /\ call.current_data = call.old_data) =>
    /\ ~call.ret.has_changes
    /\ call.ret.fields_changed = <<>>
    /\ call.ret.change_summary = <<>>
    /\ call.ret.significant_changes = <<>>

C31_Witness ==
  /\ call.op = "analyze_task_changes" /\ call.done
  /\ call.current_data = call.old_data
  /\ call.old_data.labels = <<"x", "y">>
  /\ call.old_data.due.kind = "moment"
  /\ ~call.ret.has_changes

\* the two snapshots agree on every field but the labels, and their label
\* lists hold the same labels in another order
ReorderOnly(current_data, old_data) ==
  /\ current_data.labels # old_data.labels
  /\ label_set(current_data.labels) = label_set(old_data.labels)
  /\ \A i \in 1 .. Len(important_fields) :
       important_fields[i] # "labels" =>
         current_data[important_fields[i]] = old_data[important_fields[i]]

\* C32: labels are judged as sets: diffing two snapshots whose label lists
\* differ only in order gives no labels_changed tag, and the update is not
\* treated as a change (has_changes stays false, so the updated handler's
\* reschedule decision is never reached for it).
C32_LabelReorderIsNoChange ==
  (call.op = "analyze_task_changes" /\ call.done
     /\ ReorderOnly(call.current_data, call.old_data)) =>
    /\ \A i \in 1 .. Len(call.ret.significant_changes) :
         call.ret.significant_changes[i] # "labels_changed"
    /\ ~call.ret.has_changes

\* the tags a tracked field can add to significant_changes
TagsOf(field) ==
  IF field = "content" THEN {"title_changed"}
  ELSE IF field = "due"
    THEN {"due_date_added", "due_date_removed", "due_date_changed"}
  ELSE IF field = "duration"
    THEN {"duration_added", "duration_removed", "duration_changed"}
  ELSE IF field = "priority" THEN {"priority_changed"}
  ELSE IF field = "labels" THEN {"labels_changed"}
  ELSE IF field = "description" THEN {"description_changed"}
  ELSE IF field = "checked" THEN {"task_completed", "task_reopened"}
  ELSE {field \o "_changed"}

\* C33: for every pair of snapshots and every tracked field (title, due,
\* duration, priority, labels, description, project, section, completion)
\* whose old and new values differ, the change record has the field in
\* fields_changed, exactly one summary line for it, and at least one
\* significant-change tag for it.
C33_EveryChangedFieldIsReported ==
  (call.op = "analyze_task_changes" /\ call.done) =>
    \A i \in 1 .. Len(important_fields) :
      LET field == important_fields[i]
          r == call.ret
      IN  call.old_data[field] # call.current_data[field] =>
            /\ \E k \in 1 .. Len(r.fields_changed) : r.fields_changed[k] = field
            /\ Cardinality({k \in 1 .. Len(r.change_summary) :
                              r.change_summary[k].field = field}) = 1
            /\ \E k \in 1 .. Len(r.significant_changes) :
                 r.significant_changes[k] \in TagsOf(field)

\* the position in the text of the line of the i-th slot, and the header the
\* slot is listed under (the last header before its line)
SlotLine(lines, i) ==
  CHOOSE k \in 1 .. Len(lines) :
    /\ lines[k].kind = "slot"
    /\ Cardinality({j \in 1 .. k : lines[j].kind = "slot"}) = i
HeaderOf(lines, k) ==
  LET above == {j \in 1 .. k : lines[j].kind = "header"}
  IN  lines[CHOOSE j \in above : \A x \in above : x <= j]

\* C34: in the availability text every slot is listed under a day header that
\* carries the slot's own weekday and date, whatever the sequence of result
\* intervals (consecutive slots on the same weekday of different weeks
\* included), and the total equals the number of slots listed.
C34_SlotUnderItsOwnDay ==
  (call.op = "formatting" /\ call.done /\ call.ret.found) =>
    LET lines == call.ret.lines
        slots == call.intervals
    IN  /\ call.ret.total = Cardinality({k \in 1 .. Len(lines) : lines[k].kind = "slot"})
        /\ call.ret.total = Len(slots)
        /\ lines[1].kind = "header"
        /\ \A i \in 1 .. Len(slots) :
             LET header == HeaderOf(lines, SlotLine(lines, i))
             IN  /\ header.day = day_name(slots[i].start)
                 /\ header.date_str = slots[i].start \div DayLen

\* C35: on an added event for a project configured for auto-categorization,
\* when the categorization fails (here: the section lookup gives nothing
\* usable) the handler does not stop at the categorization step: the event is
\* not reported as categorized, and a task the policy allows goes on to the
\* guard and the planner.
C35_FailedCategorizationFallsThrough ==
  (CategorizationFires(ev) /\ ~ev.d.sections /\ ev.next = "done") =>
    /\ last.log # "categorized"
    /\ PolicyAllows(ev.d) => TriedGuard(ev)

\* C36: in a calendar webhook with several events, handling one event never
\* makes the guard refuse a later event of the same webhook: right after the
\* planner call of one event of the batch has ended, the next event of the
\* batch is not answered "Agent is busy".
C36_BatchEventNotRefused ==
  [][\A p \in Procs :
       (/\ running = p /\ pc[p] = "cal_loop" /\ idx[p] > 1
        /\ last.event_name = "calendar:event_end"
        /\ last.msg \in {"agent_result", "planner raised"}) =>
         last'.msg # "Agent is busy"]_vars

\* request q holds the guard: the guard is Working since q's planner call
\* started, for q's task
\* C37: the late release of a handler whose Working period was force-expired
\* by the timeout never ends the Working state of another, later acquisition,
\* whatever the task ids of the two (the same task id included): when the
\* planner call of request p ends while request q holds the guard, the guard
\* stays Working for q.
C37_LateReleaseKeepsLaterHolder ==
  [][\A p, q \in Procs :
       (/\ p # q
        /\ pc[q] = "planning" /\ cm[q].acquired /\ Working(agent_lock)
        /\ agent_lock.agent_start_time = plan_start[q]
        /\ agent_lock.current_task_id = cm[q].task_id
        /\ pc[p] = "planning" /\ cm[p].acquired /\ plan_start[p] < plan_start[q]
        /\ pc'[p] # "planning") =>
         /\ agent_lock'.is_agent_working
         /\ agent_lock'.agent_start_time = agent_lock.agent_start_time]_vars

\* C38: a release call (by any task id) made while the guard is Idle or
\* already in Cooldown puts the guard in Cooldown with the time of the call as
\* cooldown-start time, so an acquire that follows it is refused as long as no
\* more than the cooldown duration has elapsed since that call.
C38_ReleaseWhenNotWorkingRestartsCooldown ==
  [][/\ (ncalls' # ncalls /\ call'.op = "release" /\ ~agent_lock.is_agent_working) =>
          /\ Cooldown(agent_lock')
          /\ agent_lock'.cooldown_start_time = now
     /\ (/\ call.op = "release" /\ ~call.pre.is_agent_working
         /\ ncalls' # ncalls /\ call'.op = "acquire"
         /\ now - call.at <= cooldown_seconds) =>
          ~call'.ret /\ agent_lock' = agent_lock]_vars

C38_Witness ==
  /\ call.op = "acquire" /\ ~call.ret
  /\ call.pre.is_cooldown /\ ~call.pre.is_agent_working
  /\ call.pre.current_task_id = NoTask
  /\ call.at - call.pre.cooldown_start_time = cooldown_seconds

\* schedule_initial_tasks_agent is called for the event of request q: it
\* writes the category and the labels of q's task into _current_task_context,
\* which the planner's availability tools read at each query
SetsContext(q) == pc[q] # "planning" /\ pc'[q] = "planning"

\* C39: every availability query the planner makes while handling task T uses
\* T's category and labels: while the planner call for T is running, the
\* shared current-task context is never overwritten by the planner invocation
\* of another event, under any interleaving of the event handlers.
C39_ContextKeptDuringPlannerCall ==
  [][\A p, q \in Procs :
       (p # q /\ pc[p] = "planning" /\ pc'[p] = "planning" /\ SetsContext(q)) =>
         task'[q] = task[p]]_vars

\* C40: the priority gate fails open: when reading the category's policy
\* raises, should_auto_schedule_by_priority allows the task, with a reason
\* saying that the check failed, for every priority (an absent one included);
\* an added event that is given this answer and passes the rest of the policy
\* goes on to acquire the guard and to call the planner, it is neither skipped
\* nor an error.
C40_GateFailsOpen ==
  (call.op = "should_auto_schedule_by_priority" /\ call.done
     /\ call.list_settings.raises) =>
    /\ call.ret.allow
    /\ call.ret.reason.kind = "check_failed"
    /\ call.ret.reason.priority = effective_priority(call.priority)
    /\ \A d \in AddedInputs :
         (/\ ~(d.has_project /\ d.configured) /\ ~has_manual_scheduled_label(d)
          /\ d.has_project /\ d.mapped) =>
           LET h == handle_task_added(AgentLock_init, "T1",
                                      [d EXCEPT !.allow = call.ret.allow], 1)
           IN  /\ h.next = "planning" /\ h.acq = <<"T1">>
               /\ h.g.is_agent_working /\ h.g.current_task_id = "T1"

C40_Witness ==
  /\ call.op = "should_auto_schedule_by_priority" /\ call.done
  /\ call.list_settings = [min_priority |-> 4, enabled |-> FALSE, raises |-> TRUE]
  /\ call.priority = None
  /\ call.ret.allow /\ call.ret.reason.kind = "check_failed"
  /\ call.ret.reason.priority = 1
====
